---- MODULE Spec2Model ----
(***************************************************************************)
(* A model of the statechart engine: the value/path algebra and context    *)
(* helpers of utils, the action builders of actions, the machines of the   *)
(* README and of the interpreter tests, the transition function and the    *)
(* interpreter that drives it.                                             *)
(*                                                                         *)
(* Strings are sequences of tokens, so that splitting on a delimiter and   *)
(* concatenation are computed: "bold.off" is <<"bold", ".", "off">>.       *)
(* A state value is a record: a leaf string [str |-> TRUE, s |-> string]   *)
(* or an object [str |-> FALSE, o |-> <<[k |-> key, v |-> value], ...>>]   *)
(* whose pairs are kept in insertion order, as Object.keys returns them.   *)
(***************************************************************************)
EXTENDS Integers, Sequences, FiniteSets, TLC

VARIABLES
    machine,    \* name of the machine definition under test
    cur,        \* the configuration last returned by transition (a State)
    last,       \* the input and event of the last transition call
    run,        \* the value the run started from and the TIMER events applied since
    exited,     \* payment machine: child of method active when method was last exited
    svc,        \* the interpreter: status, current state, listeners, delayed events
    clock,      \* the simulated clock: now, next id, pending timeouts
    obs,        \* what the outside observed: listener calls, logs, deliveries, errors
    util        \* a call of a function of utils: its arguments and what it returned

vars == <<machine, cur, last, run, exited, svc, clock, obs, util>>

-----------------------------------------------------------------------------
(* Strings and sequences *)

STATE_DELIMITER == "."

W(s) == <<s>>

RECURSIVE Split(_, _)
\* String.prototype.split on a one-token separator
Split(str, sep) ==
    IF \A i \in 1..Len(str) : str[i] # sep
    THEN <<str>>
    ELSE LET i == CHOOSE j \in 1..Len(str) :
                      str[j] = sep /\ \A m \in 1..(j - 1) : str[m] # sep
         IN <<SubSeq(str, 1, i - 1)>> \o Split(SubSeq(str, i + 1, Len(str)), sep)

RECURSIVE Join(_, _)
Join(parts, sep) ==
    IF Len(parts) = 0 THEN <<>>
    ELSE IF Len(parts) = 1 THEN parts[1]
    ELSE parts[1] \o <<sep>> \o Join(Tail(parts), sep)

RECURSIVE flattenReversed(_)
\* flatten that puts the later arrays first
flattenReversed(array) ==
    IF Len(array) = 0 THEN <<>> ELSE flattenReversed(Tail(array)) \o Head(array)

RECURSIVE flatten(_)
flatten(array) ==
    IF Len(array) = 0 THEN <<>> ELSE Head(array) \o flatten(Tail(array))

Range(seq) == {seq[i] : i \in 1..Len(seq)}

RECURSIVE SelectSeqIdx(_, _)
\* the indices of seq, in order, whose element is in the set keep
SelectSeqIdx(seq, keep) ==
    IF Len(seq) = 0 THEN <<>>
    ELSE LET rest == SelectSeqIdx(SubSeq(seq, 1, Len(seq) - 1), keep)
         IN IF seq[Len(seq)] \in keep THEN Append(rest, Len(seq)) ELSE rest

RECURSIVE Dedupe(_)
Dedupe(seq) ==
    IF Len(seq) = 0 THEN <<>>
    ELSE LET rest == Dedupe(SubSeq(seq, 1, Len(seq) - 1))
         IN IF seq[Len(seq)] \in Range(rest) THEN rest ELSE Append(rest, seq[Len(seq)])

IsPrefix(p, q) == Len(p) <= Len(q) /\ SubSeq(q, 1, Len(p)) = p

-----------------------------------------------------------------------------
(* State values *)

StrVal(s) == [str |-> TRUE, s |-> s, o |-> <<>>]
ObjVal(o) == [str |-> FALSE, s |-> <<>>, o |-> o]
EMPTY_OBJECT == ObjVal(<<>>)
\* the JavaScript value undefined, where a state value is expected
Undefined == [str |-> FALSE, s |-> <<"undefined">>, o |-> <<>>]

isString(v) == v.str
isUndefined(v) == ~v.str /\ v.s # <<>>
\* !v: undefined and the empty string are falsy, every object is truthy
Falsy(v) == isUndefined(v) \/ (v.str /\ v.s = <<>>)

\* a string or an array of strings, as toStatePath accepts
AStr(s) == [isArr |-> FALSE, s |-> s, arr |-> <<>>]
AArr(p) == [isArr |-> TRUE, s |-> <<>>, arr |-> p]

keys(v) == [i \in 1..Len(v.o) |-> v.o[i].k]

HasKey(v, k) == \E i \in 1..Len(v.o) : v.o[i].k = k

\* v[k], undefined when the key is absent or v is a string
Get(v, k) ==
    IF HasKey(v, k) THEN v.o[CHOOSE i \in 1..Len(v.o) : v.o[i].k = k].v ELSE Undefined

\* obj[k] = x: an existing key keeps its position, a new key is appended
Put(o, k, x) ==
    IF \E i \in 1..Len(o) : o[i].k = k
    THEN [i \in 1..Len(o) |-> IF o[i].k = k THEN [k |-> k, v |-> x] ELSE o[i]]
    ELSE Append(o, [k |-> k, v |-> x])

RECURSIVE ValEq(_, _)
\* structural (deep) equality: the order of the keys does not count
ValEq(a, b) ==
    IF a.str \/ b.str
    THEN a.str /\ b.str /\ a.s = b.s
    ELSE /\ Range(keys(a)) = Range(keys(b))
         /\ Len(a.o) = Len(b.o)
         /\ \A i \in 1..Len(a.o) : ValEq(a.o[i].v, Get(b, a.o[i].k))

-----------------------------------------------------------------------------
(* utils: the value and path algebra *)

toStatePath(stateId, delimiter) ==
    IF stateId.isArr THEN stateId.arr ELSE Split(stateId.s, delimiter)

RECURSIVE pathToStateValue(_)
pathToStateValue(statePath) ==
    IF Len(statePath) = 1 THEN StrVal(statePath[1])
    ELSE IF Len(statePath) = 0 THEN EMPTY_OBJECT
    ELSE IF Len(statePath) = 2
         THEN ObjVal(<<[k |-> statePath[1], v |-> StrVal(statePath[2])]>>)
         ELSE ObjVal(<<[k |-> statePath[1], v |-> pathToStateValue(Tail(statePath))]>>)

\* x is [t |-> "state" | "array" | "value", v |-> value, path |-> array]
toStateValue(x, delimiter) ==
    IF x.t = "state" THEN x.v
    ELSE IF x.t = "array" THEN pathToStateValue(x.path)
    ELSE IF ~isString(x.v) THEN x.v
    ELSE pathToStateValue(toStatePath(AStr(x.v.s), delimiter))

AsValue(v) == [t |-> "value", v |-> v, path |-> <<>>]
AsArray(p) == [t |-> "array", v |-> Undefined, path |-> p]
AsState(st) == [t |-> "state", v |-> st.value, path |-> <<>>]

RECURSIVE matchesStateEitherWay(_, _, _)
\* without the early return for a parent more specific than the child
matchesStateEitherWay(parentStateId, childStateId, delimiter) ==
    LET parentStateValue == toStateValue(AsValue(parentStateId), delimiter)
        childStateValue == toStateValue(AsValue(childStateId), delimiter)
    IN IF isString(childStateValue)
       THEN IF isString(parentStateValue)
            THEN childStateValue.s = parentStateValue.s
            ELSE HasKey(parentStateValue, childStateValue.s)
       ELSE IF isString(parentStateValue)
       THEN HasKey(childStateValue, parentStateValue.s)
       ELSE \A i \in 1..Len(parentStateValue.o) :
               /\ HasKey(childStateValue, parentStateValue.o[i].k)
               /\ matchesStateEitherWay(parentStateValue.o[i].v,
                                        Get(childStateValue, parentStateValue.o[i].k),
                                        STATE_DELIMITER)

RECURSIVE matchesState(_, _, _)
matchesState(parentStateId, childStateId, delimiter) ==
    LET parentStateValue == toStateValue(AsValue(parentStateId), delimiter)
        childStateValue == toStateValue(AsValue(childStateId), delimiter)
    IN IF isString(childStateValue)
       THEN IF isString(parentStateValue)
            THEN childStateValue.s = parentStateValue.s
            ELSE FALSE    \* parent more specific than child
       ELSE IF isString(parentStateValue)
       THEN HasKey(childStateValue, parentStateValue.s)
       ELSE \A i \in 1..Len(parentStateValue.o) :
               /\ HasKey(childStateValue, parentStateValue.o[i].k)
               /\ matchesState(parentStateValue.o[i].v,
                               Get(childStateValue, parentStateValue.o[i].k),
                               STATE_DELIMITER)

RECURSIVE toStatePathsFirstKey(_)
\* toStatePaths that follows the first key of an object only
toStatePathsFirstKey(stateValue) ==
    IF Falsy(stateValue) THEN << <<>> >>
    ELSE IF isString(stateValue) THEN << <<stateValue.s>> >>
    ELSE IF Len(stateValue.o) = 0 THEN <<>>
    ELSE LET key == stateValue.o[1].k
             subStateValue == stateValue.o[1].v
         IN IF ~isString(subStateValue) /\ ~isUndefined(subStateValue)
               /\ Len(subStateValue.o) = 0
            THEN << <<key>> >>
            ELSE LET sub == toStatePathsFirstKey(subStateValue)
                 IN [j \in 1..Len(sub) |-> <<key>> \o sub[j]]

RECURSIVE toStatePaths(_)

toStatePaths(stateValue) ==
    IF Falsy(stateValue) THEN << <<>> >>
    ELSE IF isString(stateValue) THEN << <<stateValue.s>> >>
    ELSE flatten([i \in 1..Len(stateValue.o) |->
            LET key == stateValue.o[i].k
                subStateValue == stateValue.o[i].v
            IN IF ~isString(subStateValue) /\ ~isUndefined(subStateValue)
                  /\ Len(subStateValue.o) = 0
               THEN << <<key>> >>
               ELSE LET sub == toStatePaths(subStateValue)
                    IN [j \in 1..Len(sub) |-> <<key>> \o sub[j]]])

RECURSIVE InsertPath(_, _)
\* the inner loop of pathsToStateValue: marker is an object, rest = currentPath[i..]
InsertPath(marker, rest) ==
    IF Len(rest) = 0 THEN marker
    ELSE IF Len(rest) = 2
    THEN ObjVal(Put(marker.o, rest[1], StrVal(rest[2])))
    ELSE LET had == Get(marker, rest[1])
             sub == IF Falsy(had) THEN EMPTY_OBJECT ELSE had
         IN IF isString(sub)
            THEN marker    \* a property written on a string primitive is not kept
            ELSE ObjVal(Put(marker.o, rest[1], InsertPath(sub, Tail(rest))))

RECURSIVE InsertPaths(_, _)
InsertPaths(result, paths) ==
    IF Len(paths) = 0 THEN result
    ELSE InsertPaths(InsertPath(result, Head(paths)), Tail(paths))

\* the early return taken for every single path, whatever its length
pathsToStateValueNoLengthTest(paths) ==
    IF Len(paths) = 1 /\ Len(paths[1]) >= 1
    THEN StrVal(paths[1][1])
    ELSE InsertPaths(EMPTY_OBJECT, paths)

\* the loop over the paths left after the first path
pathsToStateValueFirstOnly(paths) ==
    IF Len(paths) = 1 /\ Len(paths[1]) = 1
    THEN StrVal(paths[1][1])
    ELSE InsertPaths(EMPTY_OBJECT, SubSeq(paths, 1, 1))

\* the leaf written under its parent's key is the key itself, not the next segment
pathsToStateValueLeafIsKey(paths) ==
    IF Len(paths) = 1 /\ Len(paths[1]) = 1
    THEN StrVal(paths[1][1])
    ELSE InsertPaths(EMPTY_OBJECT,
                     [i \in 1..Len(paths) |->
                        [j \in 1..Len(paths[i]) |->
                            IF j = Len(paths[i]) /\ j > 1 THEN paths[i][j - 1]
                            ELSE paths[i][j]]])

pathsToStateValue(paths) ==
    IF Len(paths) = 1 /\ Len(paths[1]) = 1
    THEN StrVal(paths[1][1])
    ELSE InsertPaths(EMPTY_OBJECT, paths)

-----------------------------------------------------------------------------
(* utils: history values *)

\* HistoryValue | undefined
NoHistory == [def |-> FALSE, current |-> Undefined, states |-> <<>>]
Hist(current, states) == [def |-> TRUE, current |-> current, states |-> states]

RECURSIVE updateHistoryStatesForgetful(_, _)
\* without the fallback to subHist.current: an inactive subtree loses its entry
updateHistoryStatesForgetful(hist, stateValue) ==
    [i \in 1..Len(hist.states) |->
        LET key == hist.states[i].k
            subHist == hist.states[i].v
            subStateValue == IF isString(stateValue) THEN Undefined
                             ELSE Get(stateValue, key)
        IN [k |-> key,
            v |-> IF ~subHist.def THEN NoHistory
                  ELSE IF Falsy(subStateValue) THEN NoHistory
                  ELSE Hist(subStateValue,
                            updateHistoryStatesForgetful(subHist, subStateValue))]]

RECURSIVE updateHistoryStates(_, _)
updateHistoryStates(hist, stateValue) ==
    [i \in 1..Len(hist.states) |->
        LET key == hist.states[i].k
            subHist == hist.states[i].v
            own == IF isString(stateValue) THEN Undefined ELSE Get(stateValue, key)
            subStateValue == IF ~Falsy(own) THEN own ELSE subHist.current
        IN [k |-> key,
            v |-> IF ~subHist.def THEN NoHistory
                  ELSE IF Falsy(subStateValue) THEN NoHistory
                  ELSE Hist(subStateValue, updateHistoryStates(subHist, subStateValue))]]

\* the current value of the history given is kept
updateHistoryValueKeepsCurrent(hist, stateValue) ==
    Hist(hist.current, updateHistoryStates(hist, stateValue))

updateHistoryValue(hist, stateValue) ==
    Hist(stateValue, updateHistoryStates(hist, stateValue))

-----------------------------------------------------------------------------
(* Context, events and user functions *)

\* a context record {k: number, ...}, or undefined
NoContext == [def |-> FALSE, o |-> <<>>]
Ctx(o) == [def |-> TRUE, o |-> o]
CtxGet(ctx, k) == ctx.o[CHOOSE i \in 1..Len(ctx.o) : ctx.o[i].k = k].v

\* Event<TEvent>: a string, or an object with a type
EvStr(s) == [kind |-> "string", type |-> s]
EvObj(type) == [kind |-> "object", type |-> type]
NoEvent == [kind |-> "undefined", type |-> <<>>]
EvNull == [kind |-> "null", type |-> <<>>]
\* what reading a property an object does not have gives
UndefinedType == <<"(undefined)">>
\* an object without a type property
EvUntyped == EvObj(UndefinedType)
\* the Error getEventType throws, where its result is expected
EventError ==
    <<"Error: Events must be strings or objects with a string event.type property.">>

\* getEventType without the branch for an event given as a string
getEventTypeOfObjectsOnly(event) ==
    IF event.kind = "object" THEN event.type ELSE <<>>

\* reading .type throws on null and undefined only, and the catch rethrows
getEventType(event) ==
    IF event.kind \in {"null", "undefined"} THEN EventError ELSE event.type

toEventObject(event) == EvObj(getEventType(event))

\* the functions the machines of the tests pass to assign and log
FnCountPlusOne == "ctx => ctx.count + 1"
FnCtx == "ctx => ctx"
FnCopyCount == "ctx => ({ other: ctx.count })"
\* a guard of the machines the transition function is driven with
FnCountAtLeastTwo == "ctx => ctx.count >= 2"

\* propAssignment(acc, event)
CallProp(fn, acc, event) ==
    IF fn = FnCountPlusOne THEN CtxGet(acc, "count") + 1 ELSE 0

\* assignment(acc, event) for a whole-context assigner: a partial context
CallAssigner(fn, acc, event) ==
    IF fn = FnCtx THEN acc.o
    ELSE IF fn = FnCopyCount THEN <<[k |-> "other", v |-> CtxGet(acc, "count")]>>
    ELSE <<>>

\* expr(ctx, event) of a log action: the value handed to the logger
CallExpr(fn, ctx, event) ==
    IF fn = FnCtx THEN [context |-> ctx, event |-> NoEvent]
    ELSE [context |-> ctx, event |-> event]

-----------------------------------------------------------------------------
(* actions: the action builders *)

None == [some |-> FALSE, v |-> <<>>]
Some(x) == [some |-> TRUE, v |-> x]
\* a delay in ms, a delay expression (fn names the function), or undefined
NoDelay == [some |-> FALSE, v |-> 0, fn |-> ""]
Delay(ms) == [some |-> TRUE, v |-> ms, fn |-> ""]
DelayExpr(fn) == [some |-> TRUE, v |-> 0, fn |-> fn]
\* the target of a send: a service id, a target expression, or undefined
NoTarget == [some |-> FALSE, v |-> <<>>, fn |-> ""]
Target(id) == [some |-> TRUE, v |-> id, fn |-> ""]
TargetExpr(fn) == [some |-> TRUE, v |-> <<>>, fn |-> fn]

actionTypes == [send |-> "xstate.send", cancel |-> "xstate.cancel",
                raise |-> "xstate.raise", log |-> "xstate.log",
                assign |-> "xstate.assign", start |-> "xstate.start",
                stop |-> "xstate.stop", init |-> "xstate.init",
                after |-> "xstate.after"]

\* an action object; the fields a kind does not have are left empty
NoAssignment == [isFn |-> FALSE, fn |-> "", props |-> <<>>]
Action0(type) ==
    [type |-> type, to |-> NoTarget, event |-> [isFn |-> FALSE, name |-> <<>>, ev |-> NoEvent],
     delay |-> NoDelay, id |-> None, sendId |-> <<>>, label |-> None, expr |-> "",
     value |-> [context |-> NoContext, event |-> NoEvent],
     assignment |-> NoAssignment, activity |-> <<>>]

\* an init event that carries no type
initEventUntyped == EvObj(<<>>)

initEvent == EvObj(W(actionTypes.init))

\* the event argument of send: an event, or an expression (a function)
OfEvent(e) == [isFn |-> FALSE, name |-> <<>>, ev |-> e]
OfFn(name) == [isFn |-> TRUE, name |-> name, ev |-> NoEvent]

NoOptions == [def |-> FALSE, to |-> NoTarget, delay |-> NoDelay, id |-> None]
Options(delay, id) == [def |-> TRUE, to |-> NoTarget, delay |-> delay, id |-> id]
OptionsTo(to, delay, id) == [def |-> TRUE, to |-> to, delay |-> delay, id |-> id]

\* raise that builds a send without delay
raiseAsSend(event) ==
    [Action0(actionTypes.send) EXCEPT !.event = OfEvent(toEventObject(event)),
                                      !.id = Some(getEventType(event))]

raise(event) ==
    [Action0(actionTypes.raise) EXCEPT !.event = OfEvent(event)]

\* send that builds the action of raise when no delay is to pass
sendAsRaise(event, options) ==
    IF ~options.def \/ ~options.delay.some \/ options.delay.v = 0
    THEN [Action0(actionTypes.raise) EXCEPT !.event = OfEvent(event.ev)]
    ELSE [Action0(actionTypes.send) EXCEPT
            !.to = options.to,
            !.event = IF event.isFn THEN event ELSE OfEvent(toEventObject(event.ev)),
            !.delay = options.delay,
            !.id = IF options.id.some THEN options.id
                   ELSE IF event.isFn THEN Some(event.name)
                   ELSE Some(getEventType(event.ev))]

\* send that takes the id from the options alone
sendIdFromOptions(event, options) ==
    [Action0(actionTypes.send) EXCEPT
        !.to = IF options.def THEN options.to ELSE NoTarget,
        !.event = IF event.isFn THEN event ELSE OfEvent(toEventObject(event.ev)),
        !.delay = IF options.def THEN options.delay ELSE NoDelay,
        !.id = IF options.def THEN options.id ELSE None]

send(event, options) ==
    [Action0(actionTypes.send) EXCEPT
        !.to = IF options.def THEN options.to ELSE NoTarget,
        !.event = IF event.isFn THEN event ELSE OfEvent(toEventObject(event.ev)),
        !.delay = IF options.def THEN options.delay ELSE NoDelay,
        !.id = IF options.def /\ options.id.some
               THEN options.id
               ELSE IF event.isFn THEN Some(event.name)
               ELSE Some(getEventType(event.ev))]

log(expr, label) ==
    [Action0(actionTypes.log) EXCEPT !.label = label, !.expr = expr]

\* cancel that loses the id of the send it is to cancel
cancelWithoutId(sendId) ==
    Action0(actionTypes.cancel)

cancel(sendId) ==
    [Action0(actionTypes.cancel) EXCEPT !.sendId = sendId]

start(activity) ==
    [Action0(actionTypes.start) EXCEPT !.activity = activity]

\* stop that builds the action of start
stopAsStart(activity) ==
    [Action0(actionTypes.start) EXCEPT !.activity = activity]

stop(activity) ==
    [Action0(actionTypes.stop) EXCEPT !.activity = activity]

assign(assignment) ==
    [Action0(actionTypes.assign) EXCEPT !.assignment = assignment]

PropAssigner(props) == [isFn |-> FALSE, fn |-> "", props |-> props]
PropFn(k, fn) == [k |-> k, isFn |-> TRUE, fn |-> fn, lit |-> 0]
PropLit(k, lit) == [k |-> k, isFn |-> FALSE, fn |-> "", lit |-> lit]

\* after that leaves the node out of the event type
afterOfDelayOnly(delayRef, id) == <<actionTypes.after, "(", ToString(delayRef), ")">>

\* the event type of the implicit event sent after delayRef ms to node id
after(delayRef, id) ==
    LET idSuffix == IF id # <<>> THEN <<"#">> \o id ELSE <<>>
    IN <<actionTypes.after, "(", ToString(delayRef), ")">> \o idSuffix

\* the expressions a send action is built with
FnDelayOfCount == "ctx => ctx.count * 10"
FnTargetOfEvent == "(ctx, e) => e.type"

\* action.event(ctx, event, meta) for an event expression
CallSendExpr(fn, ctx, event) == EvObj(fn)

\* action.delay(ctx, event) for a delay expression
CallDelayExpr(fn, ctx, event) ==
    IF fn = FnDelayOfCount THEN CtxGet(ctx, "count") * 10 ELSE 0

\* action.to(ctx, event, meta) for a target expression
CallTargetExpr(fn, ctx, event) ==
    IF fn = FnTargetOfEvent THEN getEventType(event) ELSE <<>>

\* resolveSend that builds the resolved action anew with send
resolveSendRebuilt(action, ctx, event) ==
    send(IF action.event.isFn
         THEN OfEvent(CallSendExpr(action.event.name, ctx, event))
         ELSE action.event,
         OptionsTo(IF action.to.fn # ""
                   THEN Target(CallTargetExpr(action.to.fn, ctx, event))
                   ELSE action.to,
                   IF action.delay.fn # ""
                   THEN Delay(CallDelayExpr(action.delay.fn, ctx, event))
                   ELSE action.delay,
                   None))

\* the static event, delay and target are copied as they are
resolveSend(action, ctx, event) ==
    LET resolvedEvent == IF action.event.isFn
                         THEN OfEvent(CallSendExpr(action.event.name, ctx, event))
                         ELSE action.event
        resolvedDelay == IF action.delay.fn # ""
                         THEN Delay(CallDelayExpr(action.delay.fn, ctx, event))
                         ELSE action.delay
        resolvedTarget == IF action.to.fn # ""
                          THEN Target(CallTargetExpr(action.to.fn, ctx, event))
                          ELSE action.to
    IN [action EXCEPT !.to = resolvedTarget,
                      !.event = resolvedEvent,
                      !.delay = resolvedDelay]

-----------------------------------------------------------------------------
(* utils: updateContext *)

RECURSIVE PartialOfProps(_, _, _, _)
\* the partialUpdate a property assigner builds, every updater called with acc
PartialOfProps(partialUpdate, props, acc, event) ==
    IF Len(props) = 0 THEN partialUpdate
    ELSE LET p == Head(props)
             x == IF p.isFn THEN CallProp(p.fn, acc, event) ELSE p.lit
         IN PartialOfProps(Put(partialUpdate, p.k, x), Tail(props), acc, event)

RECURSIVE ObjectAssign(_, _)
\* Object.assign({}, acc, partialUpdate) on the pair lists
ObjectAssign(acc, partial) ==
    IF Len(partial) = 0 THEN acc
    ELSE ObjectAssign(Put(acc, Head(partial).k, Head(partial).v), Tail(partial))

RECURSIVE ReduceAssign(_, _, _)
ReduceAssign(acc, event, assignActions) ==
    IF Len(assignActions) = 0 THEN acc
    ELSE LET assignment == Head(assignActions).assignment
             partialUpdate ==
                 IF assignment.isFn
                 THEN CallAssigner(assignment.fn, acc,
                                   IF event = NoEvent THEN initEvent ELSE event)
                 ELSE PartialOfProps(<<>>, assignment.props, acc, event)
         IN ReduceAssign(Ctx(ObjectAssign(acc.o, partialUpdate)), event,
                         Tail(assignActions))

RECURSIVE ReduceAssignFromFirst(_, _, _, _)
\* every assignment is evaluated against the context given, not the accumulator
ReduceAssignFromFirst(acc, context, event, assignActions) ==
    IF Len(assignActions) = 0 THEN acc
    ELSE LET assignment == Head(assignActions).assignment
             partialUpdate ==
                 IF assignment.isFn
                 THEN CallAssigner(assignment.fn, context,
                                   IF event = NoEvent THEN initEvent ELSE event)
                 ELSE PartialOfProps(<<>>, assignment.props, context, event)
         IN ReduceAssignFromFirst(Ctx(ObjectAssign(acc.o, partialUpdate)), context,
                                  event, Tail(assignActions))

updateContextFromFirst(context, event, assignActions) ==
    IF context.def THEN ReduceAssignFromFirst(context, context, event, assignActions)
    ELSE context

\* updateContext that hands back the context it was given
updateContextStale(context, event, assignActions) == context

updateContext(context, event, assignActions) ==
    IF context.def THEN ReduceAssign(context, event, assignActions) ELSE context

-----------------------------------------------------------------------------
(* utils on a store of objects: which objects a call writes *)

\* An object is a cell of the store and a reference is its index, 0 for
\* undefined.  A context is a cell of pairs; a HistoryValue is a cell with
\* its current value and, as states, the reference of a cell of pairs
\* key -> reference.  State values are never written and stay values.
Cell(o) == [o |-> o, current |-> Undefined, states |-> 0]
HistCell(current, states) == [o |-> <<>>, current |-> current, states |-> states]

\* a new object: the store with the cell added, and its reference
New(store, cell) == [store |-> Append(store, cell), ref |-> Len(store) + 1]

\* assignment(acc, event): ctx => ctx returns the object it was given
CallAssignerIn(store, fn, acc, event) ==
    IF fn = FnCtx THEN [store |-> store, ref |-> acc]
    ELSE New(store, Cell(CallAssigner(fn, Ctx(store[acc].o), event)))

\* let partialUpdate = {} and the loop that writes its keys, or the object
\* the assigner returns
PartialUpdateIn(store, assignment, acc, event) ==
    IF assignment.isFn
    THEN CallAssignerIn(store, assignment.fn, acc,
                        IF event = NoEvent THEN initEvent ELSE event)
    ELSE New(store, Cell(PartialOfProps(<<>>, assignment.props,
                                        Ctx(store[acc].o), event)))

\* Object.assign(acc, partialUpdate): the accumulator itself is the target
AssignedInPlace(store, acc, partial) ==
    [store |-> [store EXCEPT ![acc].o = ObjectAssign(@, store[partial].o)],
     ref |-> acc]

\* Object.assign({}, acc, partialUpdate): the target is a new object
AssignedIn(store, acc, partial) ==
    New(store, Cell(ObjectAssign(ObjectAssign(<<>>, store[acc].o), store[partial].o)))

RECURSIVE ReduceAssignIn(_, _, _, _)
ReduceAssignIn(store, acc, event, assignActions) ==
    IF Len(assignActions) = 0 THEN [store |-> store, ref |-> acc]
    ELSE LET p == PartialUpdateIn(store, Head(assignActions).assignment, acc, event)
             r == AssignedIn(p.store, acc, p.ref)
         IN ReduceAssignIn(r.store, r.ref, event, Tail(assignActions))

\* updateContext on the store: the store after the call and the object returned
updateContextIn(store, context, event, assignActions) ==
    IF context # 0 THEN ReduceAssignIn(store, context, event, assignActions)
    ELSE [store |-> store, ref |-> context]

RECURSIVE updateHistoryStatesIn(_, _, _)
RECURSIVE MapStatesIn(_, _, _, _)
\* mapValues(hist.states, ...): the loop over the keys, that writes result[key]
MapStatesIn(store, pairs, stateValue, result) ==
    IF Len(pairs) = 0 THEN New(store, Cell(result))
    ELSE LET key == Head(pairs).k
             subHist == Head(pairs).v
             own == IF isString(stateValue) THEN Undefined ELSE Get(stateValue, key)
             subStateValue == IF subHist = 0 THEN Undefined
                              ELSE IF ~Falsy(own) THEN own ELSE store[subHist].current
         IN IF subHist = 0 \/ Falsy(subStateValue)
            THEN MapStatesIn(store, Tail(pairs), stateValue,
                             Append(result, [k |-> key, v |-> 0]))
            ELSE LET sub == updateHistoryStatesIn(store, subHist, subStateValue)
                     made == New(sub.store, HistCell(subStateValue, sub.ref))
                 IN MapStatesIn(made.store, Tail(pairs), stateValue,
                                Append(result, [k |-> key, v |-> made.ref]))

updateHistoryStatesIn(store, hist, stateValue) ==
    MapStatesIn(store, store[store[hist].states].o, stateValue, <<>>)

\* hist.current = stateValue; hist.states = ...; return hist
updateHistoryValueInPlace(store, hist, stateValue) ==
    LET made == updateHistoryStatesIn(store, hist, stateValue)
    IN [store |-> [made.store EXCEPT ![hist] = HistCell(stateValue, made.ref)],
        ref |-> hist]

\* updateHistoryValue on the store
updateHistoryValueIn(store, hist, stateValue) ==
    LET made == updateHistoryStatesIn(store, hist, stateValue)
    IN New(made.store, HistCell(stateValue, made.ref))

RECURSIVE HistoryAt(_, _)
\* the HistoryValue a reference stands for
HistoryAt(store, ref) ==
    IF ref = 0 THEN NoHistory
    ELSE Hist(store[ref].current,
              [i \in 1..Len(store[store[ref].states].o) |->
                  [k |-> store[store[ref].states].o[i].k,
                   v |-> HistoryAt(store, store[store[ref].states].o[i].v)]])

-----------------------------------------------------------------------------
(* The machine definitions of the README and of the interpreter tests *)

\* a state node config; what a node does not set is left empty
Node(key) ==
    [key |-> W(key), id |-> None, initial |-> None, parallel |-> FALSE,
     history |-> "", context |-> NoContext, on |-> <<>>, onEntry |-> <<>>,
     onExit |-> <<>>, activities |-> <<>>, after |-> <<>>, states |-> <<>>]

\* EVENT: 'target'
On(event, target) ==
    [event |-> W(event), target |-> Some(target), actions |-> <<>>,
     internal |-> FALSE, cond |-> ""]

\* EVENT: { target, actions, internal }
OnFull(event, target, actions, internal) ==
    [event |-> W(event), target |-> target, actions |-> actions,
     internal |-> internal, cond |-> ""]

\* EVENT: { target, cond }
OnCond(event, target, cond) ==
    [event |-> W(event), target |-> Some(target), actions |-> <<>>,
     internal |-> FALSE, cond |-> cond]

After(delay, target) == [delay |-> delay, target |-> target]

\* red with a TIMER transition that targets red itself
lightMachineRedStuck ==
    [Node("light") EXCEPT
        !.initial = Some(W("green")),
        !.states = <<
            [Node("green") EXCEPT !.on = <<On("TIMER", W("yellow"))>>],
            [Node("yellow") EXCEPT !.on = <<On("TIMER", W("red"))>>],
            [Node("red") EXCEPT !.on = <<On("TIMER", W("red"))>>] >>]

lightMachine ==
    [Node("light") EXCEPT
        !.initial = Some(W("green")),
        !.states = <<
            [Node("green") EXCEPT !.on = <<On("TIMER", W("yellow"))>>],
            [Node("yellow") EXCEPT !.on = <<On("TIMER", W("red"))>>],
            [Node("red") EXCEPT !.on = <<On("TIMER", W("green"))>>] >>]

\* wait with a PED_TIMER transition back to walk
pedestrianStatesLoop ==
    [initial |-> Some(W("walk")),
     states |-> <<
        [Node("walk") EXCEPT !.on = <<On("PED_TIMER", W("wait"))>>],
        [Node("wait") EXCEPT !.on = <<On("PED_TIMER", W("walk"))>>],
        Node("stop") >>]

pedestrianStates ==
    [initial |-> Some(W("walk")),
     states |-> <<
        [Node("walk") EXCEPT !.on = <<On("PED_TIMER", W("wait"))>>],
        [Node("wait") EXCEPT !.on = <<On("PED_TIMER", W("stop"))>>],
        Node("stop") >>]

lightMachineNested ==
    [Node("light") EXCEPT
        !.initial = Some(W("green")),
        !.states = <<
            [Node("green") EXCEPT !.on = <<On("TIMER", W("yellow"))>>],
            [Node("yellow") EXCEPT !.on = <<On("TIMER", W("red"))>>],
            [Node("red") EXCEPT
                !.on = <<On("TIMER", W("green"))>>,
                !.initial = pedestrianStates.initial,
                !.states = pedestrianStates.states] >>]

Toggle(key, event) ==
    [Node(key) EXCEPT
        !.initial = Some(W("off")),
        !.states = <<
            [Node("on") EXCEPT !.on = <<On(event, W("off"))>>],
            [Node("off") EXCEPT !.on = <<On(event, W("on"))>>] >>]

wordMachine ==
    [Node("(machine)") EXCEPT
        !.parallel = TRUE,
        !.states = <<
            Toggle("bold", "TOGGLE_BOLD"),
            Toggle("underline", "TOGGLE_UNDERLINE"),
            Toggle("italics", "TOGGLE_ITALICS"),
            [Node("list") EXCEPT
                !.initial = Some(W("none")),
                !.states = <<
                    [Node("none") EXCEPT
                        !.on = <<On("BULLETS", W("bullets")),
                                 On("NUMBERS", W("numbers"))>>],
                    [Node("bullets") EXCEPT
                        !.on = <<On("NONE", W("none")),
                                 On("NUMBERS", W("numbers"))>>],
                    [Node("numbers") EXCEPT
                        !.on = <<On("BULLETS", W("bullets")),
                                 On("NONE", W("none"))>>] >>] >>]

paymentMachine ==
    [Node("(machine)") EXCEPT
        !.initial = Some(W("method")),
        !.states = <<
            [Node("method") EXCEPT
                !.initial = Some(W("cash")),
                !.states = <<
                    [Node("cash") EXCEPT !.on = <<On("SWITCH_CHECK", W("check"))>>],
                    [Node("check") EXCEPT !.on = <<On("SWITCH_CASH", W("cash"))>>],
                    [Node("hist") EXCEPT !.history = "shallow"] >>,
                !.on = <<On("NEXT", W("review"))>>],
            [Node("review") EXCEPT
                !.on = <<On("PREVIOUS", <<"method", ".", "hist">>)>>] >>]

\* the lightMachine of the interpreter tests
lightMachineDelayed ==
    [Node("light") EXCEPT
        !.id = Some(W("light")),
        !.initial = Some(W("green")),
        !.states = <<
            [Node("green") EXCEPT
                !.onEntry = <<send(OfEvent(EvStr(W("TIMER"))),
                                   Options(Delay(10), None))>>,
                !.on = <<On("TIMER", W("yellow")),
                         OnFull("KEEP_GOING", Some(W("green")),
                                <<cancel(W("TIMER"))>>, TRUE)>>],
            [Node("yellow") EXCEPT
                !.onEntry = <<send(OfEvent(EvStr(W("TIMER"))),
                                   Options(Delay(10), None))>>,
                !.on = <<On("TIMER", W("red"))>>],
            [Node("red") EXCEPT !.after = <<After(10, W("green"))>>] >>]

\* two nodes that are left after a delay or, before it has passed, by SKIP
timedMachine ==
    [Node("timed") EXCEPT
        !.id = Some(W("timed")),
        !.initial = Some(W("a")),
        !.states = <<
            [Node("a") EXCEPT !.after = <<After(10, W("b"))>>,
                              !.on = <<On("SKIP", W("c"))>>],
            [Node("b") EXCEPT !.after = <<After(5, W("a"))>>,
                              !.on = <<On("SKIP", W("c"))>>],
            [Node("c") EXCEPT !.on = <<On("BACK", W("a"))>>] >>]

logMachine ==
    [Node("log") EXCEPT
        !.id = Some(W("log")),
        !.initial = Some(W("x")),
        !.context = Ctx(<<[k |-> "count", v |-> 0]>>),
        !.states = <<
            [Node("x") EXCEPT
                !.on = <<OnFull("LOG", None,
                                <<assign(PropAssigner(<<PropFn("count", FnCountPlusOne)>>)),
                                  log(FnCtx, None)>>,
                                FALSE)>>] >>]

\* the activityMachine of the interpreter tests
activityMachine ==
    [Node("activity") EXCEPT
        !.id = Some(W("activity")),
        !.initial = Some(W("on")),
        !.states = <<
            [Node("on") EXCEPT
                !.activities = <<W("myActivity")>>,
                !.on = <<On("TURN_OFF", W("off"))>>],
            Node("off") >>]

\* the same machine with a way back, and inside on a state with an activity of its own
activityMachineNested ==
    [activityMachine EXCEPT
        !.states = <<
            [Node("on") EXCEPT
                !.activities = <<W("myActivity")>>,
                !.initial = Some(W("low")),
                !.on = <<On("TURN_OFF", W("off"))>>,
                !.states = <<
                    [Node("low") EXCEPT !.on = <<On("UP", W("high"))>>],
                    [Node("high") EXCEPT
                        !.activities = <<W("blink")>>,
                        !.on = <<On("DOWN", W("low")), On("UP", W("high"))>>] >>],
            [Node("off") EXCEPT !.on = <<On("TURN_ON", W("on"))>>] >>]

\* a machine whose transitions raise and send events, with and without a delay of 0
raisingMachine ==
    [Node("raising") EXCEPT
        !.id = Some(W("raising")),
        !.initial = Some(W("s0")),
        !.states = <<
            [Node("s0") EXCEPT
                !.on = <<OnFull("GO", Some(W("s1")),
                                <<send(OfEvent(EvStr(W("S"))), NoOptions),
                                  raise(EvStr(W("R")))>>, FALSE),
                         OnFull("GO_ZERO", Some(W("s1")),
                                <<send(OfEvent(EvStr(W("S"))), Options(Delay(0), None)),
                                  raise(EvStr(W("R")))>>, FALSE),
                         OnFull("SOLO", Some(W("t1")),
                                <<send(OfEvent(EvStr(W("S"))), NoOptions)>>, FALSE),
                         OnFull("SOLO_ZERO", Some(W("t1")),
                                <<send(OfEvent(EvStr(W("S"))), Options(Delay(0), None))>>,
                                FALSE),
                         OnFull("PAIR", Some(W("p0")),
                                <<send(OfEvent(EvStr(W("A"))), NoOptions),
                                  send(OfEvent(EvStr(W("B"))), NoOptions)>>, FALSE)>>],
            [Node("p0") EXCEPT
                !.on = <<OnFull("A", Some(W("p1")),
                                <<send(OfEvent(EvStr(W("C"))), NoOptions)>>, FALSE),
                         On("B", W("wrong"))>>],
            [Node("p1") EXCEPT !.on = <<On("B", W("p2")), On("C", W("wrong"))>>],
            [Node("p2") EXCEPT !.on = <<On("C", W("p3"))>>],
            Node("p3"),
            [Node("s1") EXCEPT
                !.on = <<On("R", W("s2")), On("S", W("wrong"))>>],
            [Node("s2") EXCEPT
                !.onEntry = <<raise(EvStr(W("R2")))>>,
                !.on = <<On("R2", W("s2b")), On("S", W("wrong"))>>],
            [Node("s2b") EXCEPT !.on = <<On("S", W("s3"))>>],
            Node("s3"),
            Node("wrong"),
            [Node("t1") EXCEPT !.on = <<On("S", W("t2"))>>],
            Node("t2") >>]

\* an action a definition gives by its name
Named(type) == Action0(type)

\* a machine with entry, exit and transition actions and activities on two levels
orderedMachine ==
    [Node("ordered") EXCEPT
        !.id = Some(W("ordered")),
        !.initial = Some(W("a")),
        !.states = <<
            [Node("a") EXCEPT
                !.initial = Some(W("a1")),
                !.onEntry = <<Named("enter_a")>>,
                !.onExit = <<Named("exit_a")>>,
                !.activities = <<W("act_a")>>,
                !.on = <<OnFull("NEXT", Some(W("b")), <<Named("go"), Named("went")>>,
                                FALSE)>>,
                !.states = <<
                    [Node("a1") EXCEPT
                        !.onEntry = <<Named("enter_a1")>>,
                        !.onExit = <<Named("exit_a1")>>,
                        !.activities = <<W("act_a1")>>,
                        !.on = <<OnFull("INNER", Some(W("a2")), <<Named("inner")>>,
                                        FALSE)>>],
                    [Node("a2") EXCEPT
                        !.onEntry = <<Named("enter_a2")>>,
                        !.onExit = <<Named("exit_a2")>>] >>],
            [Node("b") EXCEPT
                !.initial = Some(W("b1")),
                !.onEntry = <<Named("enter_b")>>,
                !.onExit = <<Named("exit_b")>>,
                !.activities = <<W("act_b")>>,
                !.on = <<OnFull("BACK", Some(W("a")), <<Named("back")>>, FALSE)>>,
                !.states = <<
                    [Node("b1") EXCEPT
                        !.onEntry = <<Named("enter_b1")>>,
                        !.onExit = <<Named("exit_b1")>>,
                        !.activities = <<W("act_b1")>>] >>] >>]

\* a machine that enters and leaves a parallel node: two regions of the word machine
editorMachine ==
    [Node("editor") EXCEPT
        !.id = Some(W("editor")),
        !.initial = Some(W("idle")),
        !.states = <<
            [Node("idle") EXCEPT !.on = <<On("OPEN", W("editing"))>>],
            [Node("editing") EXCEPT
                !.parallel = TRUE,
                !.on = <<On("CLOSE", W("idle"))>>,
                !.states = <<Toggle("bold", "TOGGLE_BOLD"),
                             Toggle("italics", "TOGGLE_ITALICS")>>] >>]

\* a machine whose GO is guarded by the context that INC counts up
guardedMachine ==
    [Node("guarded") EXCEPT
        !.id = Some(W("guarded")),
        !.initial = Some(W("idle")),
        !.context = Ctx(<<[k |-> "count", v |-> 0]>>),
        !.states = <<
            [Node("idle") EXCEPT
                !.on = <<OnFull("INC", None,
                                <<assign(PropAssigner(<<PropFn("count", FnCountPlusOne)>>))>>,
                                FALSE),
                         OnCond("GO", W("done"), FnCountAtLeastTwo)>>],
            [Node("done") EXCEPT !.on = <<On("BACK", W("idle"))>>] >>]

\* Machine(config, options, initialContext = config.context)
Machine(config) ==
    [config |-> config, context |-> config.context, delimiter |-> STATE_DELIMITER]

-----------------------------------------------------------------------------
(* StateNode: the definition tree *)

HasChild(node, k) == \E i \in 1..Len(node.states) : node.states[i].key = k
Child(node, k) == node.states[CHOOSE i \in 1..Len(node.states) : node.states[i].key = k]

RECURSIVE Exists(_, _)
Exists(node, path) ==
    \/ Len(path) = 0
    \/ /\ HasChild(node, path[1])
       /\ Exists(Child(node, path[1]), Tail(path))

RECURSIVE getNode(_, _)
getNode(node, path) ==
    IF Len(path) = 0 THEN node ELSE getNode(Child(node, path[1]), Tail(path))

NodeType(node) ==
    IF node.parallel THEN "parallel"
    ELSE IF Len(node.states) > 0 THEN "compound"
    ELSE IF node.history # "" THEN "history"
    ELSE "atomic"

isLeafNode(node) == NodeType(node) \in {"atomic", "final"}

RECURSIVE AllPaths(_, _)
\* every node of the tree below (and with) the node at path, in document order
AllPaths(node, path) ==
    <<path>> \o flatten([i \in 1..Len(node.states) |->
                  AllPaths(node.states[i], Append(path, node.states[i].key))])

\* the node's id: config.id, or the keys from the machine's joined by the delimiter
NodeId(M, path) ==
    LET node == getNode(M.config, path)
    IN IF node.id.some THEN node.id.v
       ELSE LET top == IF M.config.id.some THEN M.config.id.v ELSE M.config.key
            IN Join(<<top>> \o path, M.delimiter)

RECURSIVE initialStateValue(_)
initialStateValue(node) ==
    IF node.parallel
    THEN LET idx == SelectSeqIdx([i \in 1..Len(node.states) |->
                                     NodeType(node.states[i]) # "history"], {TRUE})
         IN ObjVal([j \in 1..Len(idx) |->
                LET sub == initialStateValue(node.states[idx[j]])
                IN [k |-> node.states[idx[j]].key,
                    v |-> IF Falsy(sub) THEN EMPTY_OBJECT ELSE sub]])
    ELSE IF ~node.initial.some THEN Undefined
    ELSE LET init == Child(node, node.initial.v)
         IN IF isLeafNode(init) THEN StrVal(node.initial.v)
            ELSE ObjVal(<<[k |-> node.initial.v, v |-> initialStateValue(init)]>>)

RECURSIVE resolve(_, _)
\* the state value with every missing region and initial child filled in
resolve(node, stateValue) ==
    IF Falsy(stateValue)
    THEN (IF Falsy(initialStateValue(node)) THEN EMPTY_OBJECT ELSE initialStateValue(node))
    ELSE IF NodeType(node) = "parallel"
    THEN LET init == initialStateValue(node)
         IN ObjVal([i \in 1..Len(init.o) |->
                LET given == Get(stateValue, init.o[i].k)
                IN [k |-> init.o[i].k,
                    v |-> resolve(Child(node, init.o[i].k),
                                  IF Falsy(given) THEN init.o[i].v ELSE given)]])
    ELSE IF NodeType(node) = "compound"
    THEN IF isString(stateValue)
         THEN LET subStateNode == Child(node, stateValue.s)
              IN IF NodeType(subStateNode) \in {"parallel", "compound"}
                 THEN ObjVal(<<[k |-> stateValue.s, v |-> initialStateValue(subStateNode)]>>)
                 ELSE stateValue
         ELSE IF Len(stateValue.o) = 0
         THEN (IF Falsy(initialStateValue(node)) THEN EMPTY_OBJECT
               ELSE initialStateValue(node))
         ELSE ObjVal([i \in 1..Len(stateValue.o) |->
                [k |-> stateValue.o[i].k,
                 v |-> IF Falsy(stateValue.o[i].v) THEN EMPTY_OBJECT
                       ELSE resolve(Child(node, stateValue.o[i].k), stateValue.o[i].v)]])
    ELSE stateValue

RECURSIVE historyValue(_, _)
\* the history value a state value gives when none was recorded yet
historyValue(node, relativeStateValue) ==
    IF Len(node.states) = 0 THEN NoHistory
    ELSE LET idx == SelectSeqIdx([i \in 1..Len(node.states) |->
                                     node.states[i].history = ""], {TRUE})
         IN Hist(IF Falsy(relativeStateValue) THEN initialStateValue(node)
                 ELSE relativeStateValue,
                 [j \in 1..Len(idx) |->
                    LET stateNode == node.states[idx[j]]
                        subStateValue == IF isString(relativeStateValue) THEN Undefined
                                         ELSE Get(relativeStateValue, stateNode.key)
                    IN [k |-> stateNode.key,
                        v |-> historyValue(stateNode,
                                 IF Falsy(relativeStateValue) THEN Undefined
                                 ELSE IF Falsy(subStateValue)
                                 THEN initialStateValue(stateNode)
                                 ELSE subStateValue)]])

-----------------------------------------------------------------------------
(* StateNode: the normalised transitions and actions of a node *)

\* after: { N: target } becomes a transition on the event after(N, id)
delayedTransitions(M, path) ==
    LET node == getNode(M.config, path)
    IN [i \in 1..Len(node.after) |->
            [event |-> after(node.after[i].delay, NodeId(M, path)),
             target |-> Some(node.after[i].target), actions |-> <<>>,
             internal |-> FALSE, cond |-> ""]]

transitionsOf(M, path) == getNode(M.config, path).on \o delayedTransitions(M, path)

entryOf(M, path) ==
    LET node == getNode(M.config, path)
    IN node.onEntry \o
       [i \in 1..Len(node.after) |->
            send(OfEvent(EvStr(after(node.after[i].delay, NodeId(M, path)))),
                 Options(Delay(node.after[i].delay), None))]

exitOf(M, path) ==
    LET node == getNode(M.config, path)
    IN node.onExit \o
       [i \in 1..Len(node.after) |->
            cancel(after(node.after[i].delay, NodeId(M, path)))]

\* cond(context, event, meta); a transition without cond is always enabled
evaluateGuard(cond, context, event) ==
    \/ cond = ""
    \/ cond = FnCountAtLeastTwo /\ CtxGet(context, "count") >= 2

WILDCARD == W("*")

\* the transitions of the node for the event type, else for the wildcard
candidatesOf(M, path, type) ==
    LET all == transitionsOf(M, path)
        exact == SelectSeq(all, LAMBDA t : t.event = type)
    IN IF Len(exact) > 0 THEN exact ELSE SelectSeq(all, LAMBDA t : t.event = WILDCARD)

enabledOf(M, path, context, event) ==
    SelectSeq(candidatesOf(M, path, event.type),
              LAMBDA t : evaluateGuard(t.cond, context, event))

\* the transition a region takes: the first enabled one on the innermost node
selectForLeaf(M, leaf, context, event) ==
    LET ns == {n \in 0..Len(leaf) :
                  /\ Exists(M.config, SubSeq(leaf, 1, n))
                  /\ Len(enabledOf(M, SubSeq(leaf, 1, n), context, event)) > 0}
    IN IF ns = {} THEN <<>>
       ELSE LET n == CHOOSE m \in ns : \A x \in ns : x <= m
            IN <<[source |-> SubSeq(leaf, 1, n),
                  t |-> Head(enabledOf(M, SubSeq(leaf, 1, n), context, event))]>>

\* deeper sources first, then document order
byDepth(selected) ==
    LET maxd == IF Len(selected) = 0 THEN 0
                ELSE CHOOSE d \in {Len(selected[i].source) : i \in 1..Len(selected)} :
                        \A i \in 1..Len(selected) : Len(selected[i].source) <= d
    IN flatten([j \in 1..(maxd + 1) |->
            SelectSeq(selected, LAMBDA x : Len(x.source) = maxd + 1 - j)])

selectTransitions(M, value, context, event) ==
    LET leaves == toStatePaths(value)
    IN byDepth(Dedupe(flatten([i \in 1..Len(leaves) |->
                          selectForLeaf(M, leaves[i], context, event)])))

-----------------------------------------------------------------------------
(* StateNode: targets, history and the entry set *)

\* sibling first, then upward from each ancestor; <<>> when nothing resolves
resolveTarget(M, source, targetPath) ==
    LET top == IF Len(source) = 0 THEN 0 ELSE Len(source) - 1
        ns == {n \in 0..top : Exists(M.config, SubSeq(source, 1, n) \o targetPath)}
    IN IF ns = {} THEN <<>>
       ELSE LET n == CHOOSE m \in ns : \A x \in ns : x <= m
            IN <<SubSeq(source, 1, n) \o targetPath>>

RECURSIVE historyAt(_, _)
\* nestedPath(path, 'states')(historyValue)
historyAt(hist, path) ==
    IF Len(path) = 0 \/ ~hist.def THEN hist
    ELSE IF \E i \in 1..Len(hist.states) : hist.states[i].k = path[1]
    THEN historyAt(hist.states[CHOOSE i \in 1..Len(hist.states) :
                                  hist.states[i].k = path[1]].v, Tail(path))
    ELSE NoHistory

\* the nodes a target stands for: a history node stands for what its parent remembers
resolveHistory(M, hist, target) ==
    LET node == getNode(M.config, target)
        parent == SubSeq(target, 1, Len(target) - 1)
        subHistory == historyAt(hist, parent)
    IN IF node.history = "" THEN <<target>>
       ELSE IF ~hist.def \/ ~subHistory.def THEN <<parent>>
       ELSE IF isString(subHistory.current)
       THEN <<Append(parent, subHistory.current.s)>>
       ELSE LET subPaths == toStatePaths(subHistory.current)
            IN [j \in 1..Len(subPaths) |->
                    IF node.history = "deep" THEN parent \o subPaths[j]
                    ELSE Append(parent, subPaths[j][1])]

RECURSIVE enterLeaves(_, _, _)
\* the leaves entered below path: towards the targets, else the initial child;
\* every region of a parallel node
enterLeaves(root, path, targets) ==
    LET node == getNode(root, path)
        kids == [i \in 1..Len(node.states) |-> Append(path, node.states[i].key)]
    IN IF NodeType(node) = "parallel"
       THEN flatten([i \in 1..Len(kids) |->
                IF node.states[i].history # "" THEN <<>>
                ELSE enterLeaves(root, kids[i], targets)])
       ELSE IF NodeType(node) = "compound"
       THEN LET aimed == SelectSeq(kids, LAMBDA c :
                            \E i \in 1..Len(targets) : IsPrefix(c, targets[i]))
            IN IF Len(aimed) > 0
               THEN flatten([i \in 1..Len(aimed) |-> enterLeaves(root, aimed[i], targets)])
               ELSE enterLeaves(root, Append(path, node.initial.v), targets)
       ELSE <<path>>

\* least common compound ancestor of the source and the targets
domainOf(M, source, targets) ==
    LET ns == {n \in 0..(IF Len(source) = 0 THEN 0 ELSE Len(source) - 1) :
                  /\ \A i \in 1..Len(targets) : IsPrefix(SubSeq(source, 1, n), targets[i])
                  /\ \/ n = 0
                     \/ NodeType(getNode(M.config, SubSeq(source, 1, n))) = "compound"}
    IN SubSeq(source, 1, CHOOSE m \in ns : \A x \in ns : x <= m)

\* the nodes strictly below the domain on the way to the leaves
nodesBelow(domain, leaves) ==
    UNION {{SubSeq(leaves[i], 1, n) : n \in (Len(domain) + 1)..Len(leaves[i])} :
              i \in 1..Len(leaves)}

-----------------------------------------------------------------------------
(* StateNode: the step *)

Reverse(seq) == [i \in 1..Len(seq) |-> seq[Len(seq) + 1 - i]]

\* the leaves below the domain replaced, in place, by the leaves entered
replaceLeaves(leaves, domain, entered) ==
    LET first == CHOOSE i \in 1..Len(leaves) :
                    /\ IsPrefix(domain, leaves[i])
                    /\ \A j \in 1..(i - 1) : ~IsPrefix(domain, leaves[j])
    IN SubSeq(leaves, 1, first - 1) \o entered \o
       SelectSeq(SubSeq(leaves, first + 1, Len(leaves)), LAMBDA l : ~IsPrefix(domain, l))

\* an external transition: the active descendants of the domain are exited
applyExternal(acc, tr, domain, entered) ==
    [leaves |-> replaceLeaves(acc.leaves, domain, entered),
     exits |-> acc.exits \cup
               nodesBelow(domain, SelectSeq(acc.leaves, LAMBDA l : IsPrefix(domain, l))),
     entries |-> acc.entries \cup nodesBelow(domain, entered),
     actions |-> acc.actions \o tr.t.actions,
     error |-> acc.error]

applyDomain(M, acc, tr, targets, domain) ==
    applyExternal(acc, tr, domain, enterLeaves(M.config, domain, targets))

applyTargets(M, acc, tr, targets) ==
    applyDomain(M, acc, tr, targets, domainOf(M, tr.source, targets))

applyFound(M, hist, acc, tr, found) ==
    IF Len(found) = 0
    THEN [acc EXCEPT !.error = "invalid_target"]
    ELSE applyTargets(M, acc, tr, resolveHistory(M, hist, found[1]))

\* one selected transition applied to the active leaves
applyTransition(M, hist, acc, tr) ==
    IF \A i \in 1..Len(acc.leaves) : ~IsPrefix(tr.source, acc.leaves[i])
    THEN acc
    ELSE IF ~tr.t.target.some \/ tr.t.internal
    THEN [acc EXCEPT !.actions = @ \o tr.t.actions]
    ELSE applyFound(M, hist, acc, tr,
                    resolveTarget(M, tr.source,
                                  toStatePath(AStr(tr.t.target.v), M.delimiter)))

RECURSIVE applyAll(_, _, _, _)
applyAll(M, hist, acc, selected) ==
    IF Len(selected) = 0 THEN acc
    ELSE applyAll(M, hist, applyTransition(M, hist, acc, Head(selected)), Tail(selected))

\* the nodes of a set in document order
inDocumentOrder(M, nodes) ==
    SelectSeq(AllPaths(M.config, <<>>), LAMBDA q : q \in nodes)

activityActions(M, nodes, start_or_stop(_)) ==
    flatten([i \in 1..Len(nodes) |->
        [j \in 1..Len(getNode(M.config, nodes[i]).activities) |->
            start_or_stop(getNode(M.config, nodes[i]).activities[j])]])

\* exit actions, transition actions, entry actions, then activity stops and starts
orderedActions(M, exitSeq, transitionActions, entrySeq) ==
    flatten([i \in 1..Len(exitSeq) |-> exitOf(M, exitSeq[i])])
       \o transitionActions
       \o flatten([i \in 1..Len(entrySeq) |-> entryOf(M, entrySeq[i])])
       \o activityActions(M, exitSeq, stop)
       \o activityActions(M, entrySeq, start)

collectActions(M, exits, transitionActions, entries) ==
    orderedActions(M, Reverse(inDocumentOrder(M, exits)), transitionActions,
                   inDocumentOrder(M, entries))

\* expr(ctx, event) evaluated for the logger
resolveLog(action, ctx, event) ==
    [action EXCEPT !.value = CallExpr(action.expr, ctx, event)]

resolveAction(action, updatedContext, event) ==
    IF action.type = actionTypes.send THEN resolveSend(action, updatedContext, event)
    ELSE IF action.type = actionTypes.log THEN resolveLog(action, updatedContext, event)
    ELSE action

resolveWith(otherActions, updatedContext, event) ==
    [context |-> updatedContext,
     actions |-> [i \in 1..Len(otherActions) |->
                    resolveAction(otherActions[i], updatedContext, event)]]

\* assigns are folded into the context once; send and log are resolved against it
resolveActions(actions, context, event) ==
    resolveWith(SelectSeq(actions, LAMBDA a : a.type # actionTypes.assign),
                updateContext(context, event,
                              SelectSeq(actions, LAMBDA a : a.type = actionTypes.assign)),
                event)

\* State.from(value, context)
StateFrom(value, context) ==
    [value |-> value, context |-> context, event |-> initEvent,
     historyValue |-> NoHistory, actions |-> <<>>, changed |-> FALSE, error |-> ""]

FromState(state) == [isState |-> TRUE, state |-> state]
FromValue(value) == [isState |-> FALSE, state |-> StateFrom(value, NoContext)]

\* the configuration without a step taken: only the event is new
unchangedState(currentState, eventObject, error) ==
    [currentState EXCEPT !.event = eventObject, !.actions = <<>>,
                         !.changed = FALSE, !.error = error]

assembleState(currentState, eventObject, resolvedStateValue, resolved, hist) ==
    [value |-> resolvedStateValue,
     context |-> resolved.context,
     event |-> eventObject,
     historyValue |-> updateHistoryValue(hist, resolvedStateValue),
     actions |-> resolved.actions,
     changed |-> \/ ~ValEq(resolvedStateValue, currentState.value)
                 \/ Len(resolved.actions) > 0
                 \/ resolved.context # currentState.context,
     error |-> ""]

resolveTransition(M, currentState, eventObject, step) ==
    IF step.error # ""
    THEN unchangedState(currentState, eventObject, step.error)
    ELSE assembleState(currentState, eventObject, pathsToStateValue(step.leaves),
             resolveActions(collectActions(M, step.exits, step.actions, step.entries),
                            currentState.context, eventObject),
             IF currentState.historyValue.def THEN currentState.historyValue
             ELSE historyValue(M.config, currentState.value))

transitionSelected(M, currentState, eventObject, selected) ==
    IF Len(selected) = 0
    THEN unchangedState(currentState, eventObject, "")
    ELSE resolveTransition(M, currentState, eventObject,
             applyAll(M, currentState.historyValue,
                      [leaves |-> toStatePaths(currentState.value), exits |-> {},
                       entries |-> {}, actions |-> <<>>, error |-> ""],
                      selected))

transitionState(M, currentState, eventObject) ==
    transitionSelected(M, currentState, eventObject,
        selectTransitions(M, currentState.value, currentState.context, eventObject))

\* Definition.transition(from, event, context?)
transition(M, from, event, context) ==
    transitionState(M,
        IF from.isState THEN from.state
        ELSE StateFrom(resolve(M.config,
                               toStateValue(AsValue(from.state.value), M.delimiter)),
                       IF context.def THEN context ELSE M.context),
        toEventObject(event))

initialWith(M, value, resolved) ==
    [value |-> value, context |-> resolved.context, event |-> initEvent,
     historyValue |-> NoHistory, actions |-> resolved.actions,
     changed |-> FALSE, error |-> ""]

initialFrom(M, value) ==
    initialWith(M, value,
        resolveActions(collectActions(M, {}, <<>>,
                           nodesBelow(<<>>, toStatePaths(value)) \cup {<<>>}),
                       M.context, initEvent))

\* Definition.initial_state: the initial value entered with the init event
initialState(M) == initialFrom(M, initialStateValue(M.config))

-----------------------------------------------------------------------------
(* The transition function driven from bare values and from its own results *)

MaxSteps == 5

\* the README's nested light machine with a TIMER transition on walk as well
lightMachineOverride ==
    [lightMachineNested EXCEPT
        !.states[3].states[1].on = @ \o <<On("TIMER", W("stop"))>>]

MachineNames == {"light", "nested", "override", "word", "payment", "guarded",
                 "editor", "ordered"}

MachineOf(name) ==
    Machine(CASE name = "light" -> lightMachine
              [] name = "nested" -> lightMachineNested
              [] name = "override" -> lightMachineOverride
              [] name = "word" -> wordMachine
              [] name = "payment" -> paymentMachine
              [] name = "guarded" -> guardedMachine
              [] name = "editor" -> editorMachine
              [] name = "ordered" -> orderedMachine
              [] name = "delayed" -> lightMachineDelayed
              [] name = "timed" -> timedMachine
              [] name = "activity" -> activityMachine
              [] name = "activityNested" -> activityMachineNested
              [] name = "raising" -> raisingMachine
              [] OTHER -> logMachine)

Obj1(k, v) == ObjVal(<<[k |-> W(k), v |-> v]>>)
Leaf(s) == StrVal(W(s))
Dotted(a, b) == StrVal(<<a, ".", b>>)

\* the bare values transition is called with
ValuesOf(name) ==
    CASE name = "light" -> {Leaf("green"), Leaf("yellow"), Leaf("red")}
      [] name \in {"nested", "override"} ->
            {Leaf("green"), Leaf("yellow"), Leaf("red"), Dotted("red", "walk"),
             Obj1("red", Leaf("walk")), Obj1("red", Leaf("wait")),
             Obj1("red", Leaf("stop"))}
      [] name = "word" ->
            {Dotted("bold", "off"), Dotted("bold", "on"), Dotted("list", "bullets"),
             Obj1("underline", Leaf("on")),
             ObjVal(<<[k |-> W("bold"), v |-> Leaf("off")],
                      [k |-> W("italics"), v |-> Leaf("off")],
                      [k |-> W("underline"), v |-> Leaf("on")],
                      [k |-> W("list"), v |-> Leaf("bullets")]>>)}
      [] name = "payment" ->
            {Leaf("method"), Dotted("method", "cash"), Obj1("method", Leaf("check")),
             Leaf("review")}
      [] name = "guarded" -> {Leaf("idle"), Leaf("done")}
      [] name = "ordered" -> {Leaf("a"), Dotted("a", "a2"), Leaf("b")}
      [] name = "editor" -> {Leaf("idle"), Leaf("editing"),
                             Obj1("editing", Obj1("bold", Leaf("on")))}
      [] OTHER -> {}

\* the events sent: those of the machine and one that no transition handles
EventsOf(name) ==
    CASE name = "light" -> {"TIMER", "SOME_EVENT"}
      [] name \in {"nested", "override"} -> {"TIMER", "PED_TIMER", "SOME_EVENT"}
      [] name = "word" -> {"TOGGLE_BOLD", "TOGGLE_UNDERLINE", "TOGGLE_ITALICS",
                           "BULLETS", "NUMBERS", "NONE", "SOME_EVENT"}
      [] name = "payment" -> {"SWITCH_CHECK", "SWITCH_CASH", "NEXT", "PREVIOUS",
                              "SOME_EVENT"}
      [] name = "guarded" -> {"INC", "GO", "BACK", "SOME_EVENT"}
      [] name = "ordered" -> {"NEXT", "INNER", "BACK", "SOME_EVENT"}
      [] name = "editor" -> {"OPEN", "CLOSE", "TOGGLE_BOLD", "TOGGLE_ITALICS",
                             "SOME_EVENT"}
      [] OTHER -> {}

NoCall == [called |-> FALSE, from |-> FromValue(Undefined), event |-> ""]
NoService == [status |-> "idle"]
NoClock == [now |-> 0]
NoObs == [seen |-> <<>>]
NoUtil == [fn |-> "none"]

\* the child of method that is active in a value of the payment machine
MethodChild(value) ==
    IF isString(value) \/ ~HasKey(value, W("method")) THEN "none"
    ELSE Get(value, W("method")).s[1]

\* what the caller observes: the child of method when method is left
ExitedAfter(before, priorValue, nextValue) ==
    IF MethodChild(priorValue) # "none" /\ MethodChild(nextValue) = "none"
    THEN MethodChild(priorValue)
    ELSE before

Init ==
    /\ machine \in MachineNames
    /\ cur = initialState(MachineOf(machine))
    /\ last = NoCall
    /\ run = [start |-> initialStateValue(MachineOf(machine).config), nTimer |-> 0]
    /\ exited = "none"
    /\ svc = NoService
    /\ clock = NoClock
    /\ obs = NoObs
    /\ util = NoUtil

\* the result of a call is kept, with what the caller saw of it
Returned(from, e, priorValue, next) ==
    /\ cur' = next
    /\ last' = [called |-> TRUE, from |-> from, event |-> e]
    /\ exited' = ExitedAfter(IF from.isState THEN exited ELSE "none",
                             priorValue, next.value)

\* machine.transition(value, event): the first call of a run, with a bare value
TransitionFromValue(v, e) ==
    /\ ~last.called
    /\ Returned(FromValue(v), e, toStateValue(AsValue(v), STATE_DELIMITER),
                transition(MachineOf(machine), FromValue(v), EvStr(W(e)), NoContext))
    /\ run' = [start |-> v, nTimer |-> IF e = "TIMER" THEN 1 ELSE 0]
    /\ UNCHANGED <<machine, svc, clock, obs, util>>

\* machine.transition(state, event) with the State returned by the call before
TransitionFromState(e) ==
    /\ e = "TIMER" => run.nTimer < MaxSteps
    /\ e = "INC" => CtxGet(cur.context, "count") < MaxSteps
    /\ Returned(FromState(cur), e, cur.value,
                transition(MachineOf(machine), FromState(cur), EvStr(W(e)), NoContext))
    /\ run' = [run EXCEPT !.nTimer = IF e = "TIMER" THEN @ + 1 ELSE @]
    /\ UNCHANGED <<machine, svc, clock, obs, util>>

Next ==
    \/ \E v \in ValuesOf(machine), e \in EventsOf(machine) : TransitionFromValue(v, e)
    \/ \E e \in EventsOf(machine) : TransitionFromState(e)

Spec == Init /\ [][Next]_vars

-----------------------------------------------------------------------------
(* Properties of the transition function *)

\* the value the last call was given, as a state value
PriorValue == toStateValue(AsValue(last.from.state.value), STATE_DELIMITER)

LightCycle == <<"green", "yellow", "red">>
CycleIndex(value) == CHOOSE i \in 1..3 : value = Leaf(LightCycle[i])

\* C1: in the flat light machine the value after n TIMER events from a colour is the
\* colour n places further round green, yellow, red: from green it is yellow, red,
\* green, and it depends only on n mod 3
C1_LightCycle ==
    machine = "light" =>
        cur.value = Leaf(LightCycle[((CycleIndex(run.start) - 1 + run.nTimer) % 3) + 1])

C1_Witness ==
    /\ machine = "light"
    /\ run.start = Leaf("green")
    /\ run.nTimer = 4
    /\ cur.value = Leaf("yellow")

InRed(s) == Obj1("red", Leaf(s))
IsInRed(value) == ~isString(value) /\ HasKey(value, W("red"))

\* C2: in the nested light machine TIMER from every {red: s} gives green, handled by
\* red; PED_TIMER moves walk to wait and wait to stop inside red; and where walk
\* handles TIMER itself, its own transition is taken, not the one of red
C2_NearestAncestorHandles ==
    (machine \in {"nested", "override"} /\ last.called) =>
        /\ (last.event = "TIMER" /\ IsInRed(PriorValue)
                /\ ~(machine = "override" /\ PriorValue = InRed("walk")))
              => cur.value = Leaf("green")
        /\ (last.event = "TIMER" /\ machine = "override" /\ PriorValue = InRed("walk"))
              => cur.value = InRed("stop")
        /\ (last.event = "PED_TIMER" /\ PriorValue = InRed("walk"))
              => cur.value = InRed("wait")
        /\ (last.event = "PED_TIMER" /\ PriorValue = InRed("wait"))
              => cur.value = InRed("stop")
        /\ (last.event = "PED_TIMER" /\ IsInRed(PriorValue)) => IsInRed(cur.value)

C2_Witness ==
    /\ machine = "nested"
    /\ last.called /\ last.from.isState
    /\ last.event = "TIMER"
    /\ PriorValue = InRed("stop")
    /\ cur.value = Leaf("green")

\* C3: a transition to a compound node enters its initial child: yellow on TIMER gives
\* {red: walk}, and every leaf of every value returned names an atomic node
C3_EntersInitialChild ==
    /\ (machine = "nested" /\ last.called /\ last.event = "TIMER"
            /\ PriorValue = Leaf("yellow"))
          => cur.value = InRed("walk")
    /\ \A i \in 1..Len(toStatePaths(cur.value)) :
          LET leaf == toStatePaths(cur.value)[i]
          IN /\ Exists(MachineOf(machine).config, leaf)
             /\ NodeType(getNode(MachineOf(machine).config, leaf)) = "atomic"

C3_Witness ==
    /\ machine = "nested"
    /\ last.called /\ last.event = "TIMER"
    /\ PriorValue = Leaf("yellow")
    /\ cur.value = InRed("walk")

WordRegions == {"bold", "underline", "italics", "list"}
RegionOf(event) ==
    CASE event = "TOGGLE_BOLD" -> "bold"
      [] event = "TOGGLE_UNDERLINE" -> "underline"
      [] event = "TOGGLE_ITALICS" -> "italics"
      [] event \in {"BULLETS", "NUMBERS", "NONE"} -> "list"
      [] OTHER -> "none"
\* the value of a region before the call: as given, else the region's initial state
RegionBefore(r) ==
    IF ~isString(PriorValue) /\ HasKey(PriorValue, W(r)) THEN Get(PriorValue, W(r))
    ELSE IF r = "list" THEN Leaf("none") ELSE Leaf("off")

\* C4: in the word machine a transition changes only the region that handles the
\* event: every other region keeps its value, and all four regions are present in
\* the result even when the input names one; 'bold.off' on TOGGLE_BOLD gives
\* {bold: on, italics: off, underline: off, list: none}
C4_OtherRegionsKept ==
    (machine = "word" /\ last.called) =>
        /\ ~isString(cur.value)
        /\ Range(keys(cur.value)) = {W(r) : r \in WordRegions}
        /\ Len(cur.value.o) = 4
        /\ \A r \in WordRegions \ {RegionOf(last.event)} :
              Get(cur.value, W(r)) = RegionBefore(r)
        /\ (last.from.state.value = Dotted("bold", "off") /\ last.event = "TOGGLE_BOLD")
              => ValEq(cur.value,
                       ObjVal(<<[k |-> W("bold"), v |-> Leaf("on")],
                                [k |-> W("italics"), v |-> Leaf("off")],
                                [k |-> W("underline"), v |-> Leaf("off")],
                                [k |-> W("list"), v |-> Leaf("none")]>>))

C4_Witness ==
    /\ machine = "word"
    /\ last.called /\ ~last.from.isState
    /\ last.from.state.value = Dotted("bold", "off")
    /\ last.event = "TOGGLE_BOLD"
    /\ Get(cur.value, W("bold")) = Leaf("on")

\* C5: in the payment machine PREVIOUS from review gives {method: x}, x the child of
\* method that was active when method was last left, and cash when it never was
C5_HistoryRestores ==
    (machine = "payment" /\ last.called /\ last.event = "PREVIOUS"
        /\ PriorValue = Leaf("review"))
      => cur.value = Obj1("method", Leaf(IF exited = "none" THEN "cash" ELSE exited))

C5_Witness ==
    /\ machine = "payment"
    /\ last.called /\ last.event = "PREVIOUS"
    /\ PriorValue = Leaf("review")
    /\ exited = "check"
    /\ cur.value = Obj1("method", Leaf("check"))

\* the configuration the last call started from
PriorState ==
    IF last.from.isState THEN last.from.state
    ELSE StateFrom(resolve(MachineOf(machine).config, PriorValue),
                   MachineOf(machine).context)

\* no transition of an active node or of an ancestor is enabled for the event
Unmatched(state, e) ==
    Len(selectTransitions(MachineOf(machine), state.value, state.context,
                          EvObj(W(e)))) = 0

\* C14: an event no transition matches, for want of a handler or because the guard
\* is false, gives a configuration with the value, context and history of the one
\* before, the event set to it and changed false; SOME_EVENT is such an event
\* everywhere, and so is GO in the guarded machine while count is below 2
C14_UnmatchedEventKeepsConfiguration ==
    last.called =>
        /\ last.event = "SOME_EVENT" => Unmatched(PriorState, last.event)
        /\ (machine = "guarded" /\ last.event = "GO"
                /\ CtxGet(PriorState.context, "count") < 2)
              => Unmatched(PriorState, last.event)
        /\ Unmatched(PriorState, last.event) =>
              /\ cur.value = PriorState.value
              /\ cur.context = PriorState.context
              /\ cur.historyValue = PriorState.historyValue
              /\ cur.event = [kind |-> "object", type |-> W(last.event)]
              /\ ~cur.changed

C14_Witness ==
    /\ machine = "guarded"
    /\ last.called /\ last.from.isState /\ last.event = "GO"
    /\ CtxGet(cur.context, "count") = 1
    /\ cur.value = Leaf("idle")
    /\ cur.event.type = W("GO")
    /\ ~cur.changed

\* the nodes that are active in a value: the root, the leaves and what lies between
ActiveNodes(value) == nodesBelow(<<>>, toStatePaths(value)) \cup {<<>>}

\* the nodes a value names with a child below them: every proper prefix of a leaf
InnerNodes(value) == ActiveNodes(value) \ Range(toStatePaths(value))

\* C16: in every configuration reached, each leaf of the value is a node of the
\* definition that is atomic (or final), and each node the value names above a
\* leaf is a compound or parallel node: no history node and no unknown key appears
C16_LeavesAreAtomicNodes ==
    /\ \A leaf \in Range(toStatePaths(cur.value)) :
          /\ leaf # <<>>
          /\ Exists(MachineOf(machine).config, leaf)
          /\ isLeafNode(getNode(MachineOf(machine).config, leaf))
    /\ \A n \in InnerNodes(cur.value) :
          /\ Exists(MachineOf(machine).config, n)
          /\ NodeType(getNode(MachineOf(machine).config, n)) \in {"compound", "parallel"}

C16_Witness ==
    /\ machine = "payment"
    /\ last.called /\ last.from.isState
    /\ last.event = "PREVIOUS"
    /\ exited = "check"
    /\ toStatePaths(cur.value) = << <<W("method"), W("check")>> >>

RECURSIVE ValueAt(_, _)
\* the part of a value below the node at path
ValueAt(value, path) ==
    IF Len(path) = 0 THEN value
    ELSE IF isString(value) THEN EMPTY_OBJECT
    ELSE ValueAt(Get(value, Head(path)), Tail(path))

ChildKeys(node) == {node.states[i].key : i \in 1..Len(node.states)}

\* C17: in every configuration reached, the value holds below each active parallel
\* node one entry for each child region of the node, and no other entry
C17_OneEntryPerRegion ==
    \A n \in {m \in ActiveNodes(cur.value) :
                 NodeType(getNode(MachineOf(machine).config, m)) = "parallel"} :
        /\ ~isString(ValueAt(cur.value, n))
        /\ Len(ValueAt(cur.value, n).o) = Len(getNode(MachineOf(machine).config, n).states)
        /\ Range(keys(ValueAt(cur.value, n)))
              = ChildKeys(getNode(MachineOf(machine).config, n))

C17_Witness ==
    /\ machine = "editor"
    /\ last.called /\ last.from.isState /\ last.event = "TOGGLE_ITALICS"
    /\ ValEq(cur.value,
             Obj1("editing", ObjVal(<<[k |-> W("bold"), v |-> Leaf("off")],
                                      [k |-> W("italics"), v |-> Leaf("on")]>>)))

\* the place of an action in the order of a step: exit actions, the actions of the
\* transition, entry actions, the implicit stops and starts of activities
Rank(action) ==
    CASE action.type \in {"exit_a", "exit_a1", "exit_a2", "exit_b", "exit_b1"} -> 1
      [] action.type \in {"go", "went", "inner", "back"} -> 2
      [] action.type \in {"enter_a", "enter_a1", "enter_a2", "enter_b", "enter_b1"} -> 3
      [] action.type \in {actionTypes.start, actionTypes.stop} -> 4
      [] OTHER -> 0

\* the depth of the node an entry or exit action of the ordered machine belongs to
DepthOf(action) ==
    IF action.type \in {"exit_a", "exit_b", "enter_a", "enter_b"} THEN 1 ELSE 2

\* C18: in the actions of one transition call, exit actions come before the actions
\* of the transition, these before entry actions, these before the stops and starts
\* of activities; of two exit actions the one of the deeper node comes first, of two
\* entry actions the one of the shallower node
C18_ActionOrder ==
    machine = "ordered" =>
        /\ \A i \in 1..Len(cur.actions) : Rank(cur.actions[i]) # 0
        /\ \A i, j \in 1..Len(cur.actions) :
              i < j =>
                /\ Rank(cur.actions[i]) <= Rank(cur.actions[j])
                /\ (Rank(cur.actions[i]) = 1 /\ Rank(cur.actions[j]) = 1)
                      => DepthOf(cur.actions[i]) >= DepthOf(cur.actions[j])
                /\ (Rank(cur.actions[i]) = 3 /\ Rank(cur.actions[j]) = 3)
                      => DepthOf(cur.actions[i]) <= DepthOf(cur.actions[j])
        /\ (last.called /\ last.event = "NEXT" /\ PriorState.value = Obj1("a", Leaf("a1")))
              => [i \in 1..Len(cur.actions) |-> cur.actions[i].type]
                    = <<"exit_a1", "exit_a", "go", "went", "enter_b", "enter_b1",
                        actionTypes.stop, actionTypes.stop,
                        actionTypes.start, actionTypes.start>>

C18_Witness ==
    /\ machine = "ordered"
    /\ last.called /\ last.from.isState /\ last.event = "NEXT"
    /\ PriorState.value = Obj1("a", Leaf("a1"))
    /\ Len(cur.actions) = 10
    /\ cur.actions[1].type = "exit_a1"
    /\ cur.actions[10].type = actionTypes.start

-----------------------------------------------------------------------------
(* interpreter: the service, the simulated clock and what the callbacks see *)

MaxTime == 30
MaxSends == 2

\* a service, its clock and the observations of the test, as one value
World == [svc |-> svc, clock |-> clock, obs |-> obs]

NoSend == [def |-> FALSE, event |-> "", status |-> "", threw |-> FALSE,
           same |-> TRUE, before |-> Undefined, after |-> Undefined]

NoPreview == [def |-> FALSE, event |-> "", same |-> TRUE, before |-> Undefined,
              result |-> Undefined, actions |-> 0]

\* interpret(machine, { clock: new SimulatedClock(), logger }).onTransition(listener)
interpret(M) ==
    [svc |-> [status |-> "notStarted", state |-> initialState(M), listening |-> TRUE,
              delayedEvents |-> <<>>, raised |-> <<>>, queue |-> <<>>,
              activities |-> {}],
     clock |-> [now |-> 0, nextId |-> 1, timeouts |-> <<>>],
     obs |-> [seen |-> <<>>, seenEvents |-> <<>>, logs |-> <<>>, thrown |-> 0, delivered |-> {},
              cancelled |-> {}, firing |-> {}, nSent |-> 0, nAccepted |-> 0, nLog |-> 0,
              timerSent |-> FALSE, keptGoingAt |-> None, onlyFive |-> TRUE,
              startedAt |-> None, lastSend |-> NoSend,
              nPreviews |-> 0, lastPreview |-> NoPreview,
              trace |-> <<>>, macro |-> 1, left |-> {}]]

\* clock.setTimeout(fn, ms): the timeout is kept with the time it was set at
setTimeout(clk, event, sendId, ms) ==
    [clk EXCEPT !.nextId = @ + 1,
                !.timeouts = Append(@, [id |-> clk.nextId, start |-> clk.now,
                                        timeout |-> ms, event |-> event,
                                        sendId |-> sendId])]

\* clock.clearTimeout(id) for each of the ids
clearTimeouts(clk, ids) ==
    [clk EXCEPT !.timeouts = SelectSeq(@, LAMBDA t : t.id \notin ids)]

\* a send with a delay is handed to the clock and entered in the cancellation table
defer(w, action) ==
    [w EXCEPT !.clock = setTimeout(@, action.event.ev, action.id.v, action.delay.v),
              !.svc.delayedEvents = Append(@, [id |-> action.id.v,
                                               timer |-> w.clock.nextId])]

\* the timers the cancellation table holds for a send id
timersOf(table, sendId) ==
    {table[i].timer : i \in {j \in 1..Len(table) : table[j].id = sendId}}

\* the timeouts on the clock that carry the event of a send of that id
pendingOf(clk, sendId) ==
    {t.id : t \in {u \in Range(clk.timeouts) : u.sendId = sendId}}

\* cancel(sendId): every send of that id not yet delivered is taken off the clock
cancelSent(w, sendId) ==
    [w EXCEPT !.clock = clearTimeouts(@, timersOf(w.svc.delayedEvents, sendId)),
              !.svc.delayedEvents = SelectSeq(@, LAMBDA d : d.id # sendId),
              !.obs.cancelled = @ \cup (pendingOf(w.clock, sendId) \ w.obs.firing)]

\* one action of a state executed by the service
exec(w, action) ==
    IF action.type = actionTypes.send
    THEN IF action.delay.some /\ action.delay.v > 0 THEN defer(w, action)
         ELSE [w EXCEPT !.svc.queue = Append(@, [ev |-> action.event.ev,
                                                 by |-> Len(w.obs.trace)])]
    ELSE IF action.type = actionTypes.raise
    THEN [w EXCEPT !.svc.raised = Append(@, [ev |-> action.event.ev,
                                             by |-> Len(w.obs.trace)])]
    ELSE IF action.type = actionTypes.cancel THEN cancelSent(w, action.sendId)
    ELSE IF action.type = actionTypes.log
    THEN [w EXCEPT !.obs.logs = Append(@, action.value.context)]
    ELSE IF action.type = actionTypes.start
    THEN [w EXCEPT !.svc.activities = @ \cup {action.activity}]
    ELSE IF action.type = actionTypes.stop
    THEN [w EXCEPT !.svc.activities = @ \ {action.activity}]
    ELSE w

RECURSIVE execAll(_, _)
execAll(w, actions) ==
    IF Len(actions) = 0 THEN w
    ELSE execAll(exec(w, Head(actions)), Tail(actions))

\* the state becomes the current configuration and its actions are executed
commit(w, state) == execAll([w EXCEPT !.svc.state = state], state.actions)

\* the listeners are handed the current configuration
notify(w) ==
    IF w.svc.listening
    THEN [w EXCEPT !.obs.seen = Append(@, w.svc.state.value),
                   !.obs.seenEvents = Append(@, w.svc.state.event)]
    ELSE w

\* the event is entered in the trace of the call: where it came from, the step that
\* emitted it, the macrostep it is processed in and what the listener had seen by then
traced(w, event, origin, by) ==
    [w EXCEPT !.obs.trace = Append(@, [type |-> toEventObject(event).type,
                                       origin |-> origin, by |-> by,
                                       macro |-> w.obs.macro,
                                       seenLen |-> Len(w.obs.seen)])]

\* one microstep: the transition for the event is committed
step(w, M, event, origin, by) ==
    commit(traced(w, event, origin, by),
           transition(M, FromState(w.svc.state), event, NoContext))

RECURSIVE macrostep(_, _, _, _, _)
RECURSIVE drain(_, _)
\* a transition is committed, then the raised events are drained
macrostep(w, M, event, origin, by) == drain(step(w, M, event, origin, by), M)

drain(w, M) ==
    IF Len(w.svc.raised) > 0
    THEN macrostep([w EXCEPT !.svc.raised = Tail(@)], M, Head(w.svc.raised).ev,
                   "raised", Head(w.svc.raised).by)
    ELSE w

\* the macrostep is over: its configuration is handed to the listeners
surfaced(w) == [notify(w) EXCEPT !.obs.macro = @ + 1]

RECURSIVE flushQueueLastFirst(_, _)
\* the event sent last is taken first
flushQueueLastFirst(w, M) ==
    IF Len(w.svc.queue) = 0 THEN w
    ELSE flushQueueLastFirst(
             surfaced(macrostep([w EXCEPT !.svc.queue = SubSeq(@, 1, Len(@) - 1)], M,
                                w.svc.queue[Len(w.svc.queue)].ev, "sent",
                                w.svc.queue[Len(w.svc.queue)].by)), M)

RECURSIVE flushQueue(_, _)
\* the events sent without delay are taken off the queue, a macrostep each
flushQueue(w, M) ==
    IF Len(w.svc.queue) = 0 THEN w
    ELSE flushQueue(surfaced(macrostep([w EXCEPT !.svc.queue = Tail(@)], M,
                                       Head(w.svc.queue).ev, "sent",
                                       Head(w.svc.queue).by)), M)

\* a call from outside begins a new trace
beginCall(w) == [w EXCEPT !.obs.trace = <<>>, !.obs.macro = 1]

\* the event given from outside is processed, then what was sent meanwhile
deliver(w, M, event) ==
    flushQueue(surfaced(macrostep(beginCall(w), M, event, "external", 0)), M)

\* service.send that does not look at whether the service was started
serviceSendUnchecked(w, M, event, commitStopped) ==
    IF w.svc.status = "stopped" /\ ~commitStopped THEN w
    ELSE deliver(w, M, event)

\* service.send(event): an error before start; after stop the listeners are gone
\* and whether the configuration still moves is left open
serviceSend(w, M, event, commitStopped) ==
    IF w.svc.status = "notStarted" THEN [w EXCEPT !.obs.thrown = @ + 1]
    ELSE IF w.svc.status = "stopped" /\ ~commitStopped THEN w
    ELSE deliver(w, M, event)

\* service.start(): the initial state is committed and the listeners are told
serviceStart(w, M) ==
    flushQueue(surfaced(drain(commit(beginCall([w EXCEPT !.svc.status = "running"]),
                                     initialState(M)), M)), M)

\* the exit actions of every active node, as a forced stop runs them
exitAll(M, state) ==
    resolveActions(collectActions(M, nodesBelow(<<>>, toStatePaths(state.value))
                                         \cup {<<>>}, <<>>, {}),
                   state.context, state.event).actions

\* service.stop(): the active nodes are exited and the listeners removed
serviceStop(w, M) ==
    [execAll(w, exitAll(M, w.svc.state)) EXCEPT !.svc.status = "stopped",
                                                 !.svc.listening = FALSE]

\* the timeouts whose time has elapsed
due(clk) == SelectSeq(clk.timeouts, LAMBDA t : clk.now - t.start >= t.timeout)

\* the callback of the timeout is about to run: its send is being delivered
firing(w, t) ==
    [w EXCEPT !.obs.firing = @ \cup {t.id},
              !.obs.delivered = @ \cup {[timer |-> t.id, sendId |-> t.sendId,
                                         start |-> t.start, timeout |-> t.timeout,
                                         at |-> w.clock.now]}]

\* the timeout is taken off the clock once its callback has run
fired(w, t) ==
    [w EXCEPT !.clock = clearTimeouts(@, {t.id}),
              !.svc.delayedEvents = SelectSeq(@, LAMBDA d : d.timer # t.id),
              !.obs.firing = @ \ {t.id}]

\* the callback of a timeout sends its event, unless the timeout was cleared
fire(w, M, t, commitStopped) ==
    IF \A i \in 1..Len(w.clock.timeouts) : w.clock.timeouts[i].id # t.id THEN w
    ELSE fired(serviceSend(firing(w, t), M, t.event, commitStopped), t)

RECURSIVE flushTimeouts(_, _, _, _)
flushTimeouts(w, M, timeouts, commitStopped) ==
    IF Len(timeouts) = 0 THEN w
    ELSE flushTimeouts(fire(w, M, Head(timeouts), commitStopped), M,
                       Tail(timeouts), commitStopped)

flushDue(w, M, commitStopped) == flushTimeouts(w, M, due(w.clock), commitStopped)

\* clock.increment(ms)
increment(w, M, ms, commitStopped) ==
    flushDue([w EXCEPT !.clock.now = @ + ms], M, commitStopped)

\* nextState that goes through send
serviceNextStateCommitting(w, M, event) ==
    [w |-> serviceSend(w, M, event, FALSE),
     state |-> transition(M, FromState(w.svc.state), event, NoContext)]

\* service.nextState(event): the state transition gives, the service left as it is
serviceNextState(w, M, event) ==
    [w |-> w, state |-> transition(M, FromState(w.svc.state), event, NoContext)]

-----------------------------------------------------------------------------
(* The services of the interpreter tests *)

InterpMachines == {"delayed", "log", "activity", "activityNested", "raising", "timed"}

InterpEvents(name) ==
    CASE name = "delayed" -> {"TIMER", "KEEP_GOING", "SOME_EVENT"}
      [] name = "activity" -> {"TURN_OFF"}
      [] name = "activityNested" -> {"TURN_OFF", "TURN_ON", "UP", "DOWN"}
      [] name = "raising" -> {"GO", "GO_ZERO", "SOLO", "SOLO_ZERO", "S", "PAIR"}
      [] name = "timed" -> {"SKIP", "BACK"}
      [] OTHER -> {"LOG", "SOME_EVENT"}

\* clock.increment is called with 5 and with 10
Increments == {5, 10}

Becomes(w) ==
    /\ svc' = w.svc
    /\ clock' = w.clock
    /\ obs' = w.obs

InitInterp ==
    /\ machine \in InterpMachines
    /\ cur = initialState(MachineOf(machine))
    /\ last = NoCall
    /\ run = [start |-> initialStateValue(MachineOf(machine).config), nTimer |-> 0]
    /\ exited = "none"
    /\ svc = interpret(MachineOf(machine)).svc
    /\ clock = interpret(MachineOf(machine)).clock
    /\ obs = interpret(MachineOf(machine)).obs
    /\ util = NoUtil

\* what the test notes when it starts the service
noteStart(w, now) == [w EXCEPT !.obs.startedAt = Some(now)]

Start ==
    /\ svc.status = "notStarted"
    /\ Becomes(noteStart(serviceStart(World, MachineOf(machine)), clock.now))
    /\ UNCHANGED <<machine, cur, last, run, exited, util>>

\* what the test notes of a call of service.send
noteSend(w0, w1, e) ==
    [w1 EXCEPT
        !.obs.nSent = @ + 1,
        !.obs.nAccepted = IF w0.svc.status = "running" THEN @ + 1 ELSE @,
        !.obs.nLog = IF w0.svc.status = "running" /\ e = "LOG" THEN @ + 1 ELSE @,
        !.obs.timerSent = @ \/ (w0.svc.status = "running" /\ e = "TIMER"),
        !.obs.keptGoingAt =
            IF /\ ~@.some
               /\ w0.svc.status = "running"
               /\ e = "KEEP_GOING"
               /\ w0.svc.state.value = Leaf("green")
            THEN Some(w0.clock.now) ELSE @,
        !.obs.left =
            IF w0.svc.status = "running" /\ e = "SKIP" /\ isString(w0.svc.state.value)
               /\ w0.svc.state.value.s \in {W("a"), W("b")}
            THEN @ \cup {[node |-> w0.svc.state.value.s,
                          pending |-> {t.id : t \in Range(w0.clock.timeouts)}]}
            ELSE @,
        !.obs.lastSend = [def |-> TRUE, event |-> e, status |-> w0.svc.status,
                          threw |-> w1.obs.thrown > w0.obs.thrown,
                          same |-> w1.svc = w0.svc /\ w1.clock = w0.clock
                                   /\ w1.obs.seen = w0.obs.seen,
                          before |-> w0.svc.state.value,
                          after |-> w1.svc.state.value]]

Send(e, commitStopped) ==
    /\ obs.nSent + obs.nPreviews < MaxSends
    /\ Becomes(noteSend(World,
                        serviceSend(World, MachineOf(machine), EvStr(W(e)),
                                    commitStopped),
                        e))
    /\ UNCHANGED <<machine, cur, last, run, exited, util>>

\* what the test notes of a call of service.nextState
notePreview(w0, r, e) ==
    [r.w EXCEPT
        !.obs.nPreviews = @ + 1,
        !.obs.lastPreview = [def |-> TRUE, event |-> e,
                             same |-> r.w = w0,
                             before |-> w0.svc.state.value,
                             result |-> r.state.value,
                             actions |-> Len(r.state.actions)]]

NextState(e) ==
    /\ svc.status = "running"
    /\ obs.nSent + obs.nPreviews < MaxSends
    /\ Becomes(notePreview(World,
                           serviceNextState(World, MachineOf(machine), EvStr(W(e))), e))
    /\ UNCHANGED <<machine, cur, last, run, exited, util>>

Stop ==
    /\ svc.status = "running"
    /\ Becomes(serviceStop(World, MachineOf(machine)))
    /\ UNCHANGED <<machine, cur, last, run, exited, util>>

noteIncrement(w, ms, started) ==
    [w EXCEPT !.obs.onlyFive = @ /\ (started => ms = 5)]

Increment(ms, commitStopped) ==
    /\ clock.now + ms <= MaxTime
    /\ Becomes(noteIncrement(increment(World, MachineOf(machine), ms, commitStopped),
                             ms, svc.status # "notStarted"))
    /\ UNCHANGED <<machine, cur, last, run, exited, util>>

NextInterp ==
    \/ Start
    \/ \E e \in InterpEvents(machine), commitStopped \in BOOLEAN : Send(e, commitStopped)
    \/ \E e \in InterpEvents(machine) : NextState(e)
    \/ Stop
    \/ \E ms \in Increments, commitStopped \in BOOLEAN : Increment(ms, commitStopped)

SpecInterp == InitInterp /\ [][NextInterp]_vars

-----------------------------------------------------------------------------
(* Properties of the interpreter *)

\* the service runs and nothing was sent to it from outside since it started
RunsAlone == svc.status = "running" /\ obs.nAccepted = 0

\* the service was started with the clock at 0
StartedAtZero == obs.startedAt.some /\ obs.startedAt.v = 0

\* the first n values of green, yellow, red, green, ...
CyclePrefix(n) == [i \in 1..n |-> Leaf(LightCycle[((i - 1) % 3) + 1])]

\* C6: the delayed light machine started at clock 0 and left alone, the clock advanced
\* by 5 ms at a time: the listener has been given green at start and one further
\* colour of the cycle at every full 10 ms, so nothing at 5, 15 or 25 ms; and no
\* delayed send is delivered before its delay has elapsed
C6_DelayedSchedule ==
    /\ (machine = "delayed" /\ RunsAlone /\ StartedAtZero /\ obs.onlyFive)
          => obs.seen = CyclePrefix((clock.now \div 10) + 1)
    /\ \A d \in obs.delivered : d.at - d.start >= d.timeout

C6_Witness ==
    /\ machine = "delayed" /\ RunsAlone /\ StartedAtZero /\ obs.onlyFive
    /\ clock.now = 30
    /\ obs.seen = <<Leaf("green"), Leaf("yellow"), Leaf("red"), Leaf("green")>>
    /\ Cardinality(obs.delivered) = 3

\* C7: a send that was pending when cancel of its id was executed is never delivered;
\* and in the delayed light machine, once KEEP_GOING was sent in green and no TIMER
\* is sent from outside, the state stays green however far the clock is advanced
C7_CancelledNeverDelivered ==
    /\ \A d \in obs.delivered : d.timer \notin obs.cancelled
    /\ (machine = "delayed" /\ svc.status = "running" /\ obs.keptGoingAt.some
            /\ ~obs.timerSent)
          => /\ svc.state.value = Leaf("green")
             /\ obs.seen[Len(obs.seen)] = Leaf("green")
             /\ \A d \in obs.delivered : d.at <= obs.keptGoingAt.v

C7_Witness ==
    /\ machine = "delayed" /\ svc.status = "running" /\ ~obs.timerSent
    /\ obs.keptGoingAt.some /\ obs.keptGoingAt.v = 5
    /\ obs.cancelled # {}
    /\ clock.now = 15
    /\ svc.state.value = Leaf("green")

\* the context {count: n}
CountIs(n) == Ctx(<<[k |-> "count", v |-> n]>>)

\* C8: in the log machine the logger has received, after k LOG events, the contexts
\* {count: 1}, ..., {count: k} in that order: log sees the context after the assign
C8_LogSeesAssignedContext ==
    (machine = "log" /\ svc.status = "running")
        => obs.logs = [i \in 1..obs.nLog |-> CountIs(i)]

C8_Witness ==
    /\ machine = "log" /\ svc.status = "running"
    /\ obs.nLog = 2
    /\ obs.logs = <<CountIs(1), CountIs(2)>>

\* C9: a send to a service not yet started raises an error and changes nothing of
\* the service; a send of an event no transition matches to a started service
\* raises no error and leaves the state value as it was
C9_SendBeforeStartThrows ==
    obs.lastSend.def =>
        /\ obs.lastSend.status = "notStarted"
              => obs.lastSend.threw /\ obs.lastSend.same
        /\ (obs.lastSend.status = "running" /\ obs.lastSend.event = "SOME_EVENT")
              => /\ ~obs.lastSend.threw
                 /\ obs.lastSend.after = obs.lastSend.before

C9_Witness ==
    /\ obs.lastSend.def
    /\ obs.thrown = 1
    /\ obs.lastSend.status = "running" /\ obs.lastSend.event = "SOME_EVENT"
    /\ obs.lastSend.after = Leaf("green")

\* C11: nextState gives the state transition would give from the current state and
\* commits nothing: the service, its clock, what the listener and the logger have
\* seen are as before the call, although the previewed state carries actions
C11_NextStatePreviews ==
    obs.lastPreview.def =>
        /\ obs.lastPreview.same
        /\ (machine = "delayed" /\ obs.lastPreview.before = Leaf("green")
                /\ obs.lastPreview.event = "TIMER")
              => obs.lastPreview.result = Leaf("yellow") /\ obs.lastPreview.actions = 1
        /\ (machine = "delayed" /\ obs.lastPreview.before = Leaf("yellow")
                /\ obs.lastPreview.event = "TIMER")
              => obs.lastPreview.result = Leaf("red") /\ obs.lastPreview.actions = 1
        /\ (machine = "log" /\ obs.lastPreview.event = "LOG")
              => obs.lastPreview.actions = 1

C11_Witness ==
    /\ machine = "delayed" /\ svc.status = "running"
    /\ obs.lastPreview.def /\ obs.lastPreview.event = "TIMER"
    /\ obs.lastPreview.result = Leaf("yellow")
    /\ svc.state.value = Leaf("green")
    /\ obs.seen = <<Leaf("green")>>
    /\ Len(clock.timeouts) = 1

\* C12: before start the listener has been told nothing; from start on, the first
\* thing it was told is the initial state of the machine with the init event, of
\* type xstate.init, and it was told so once
C12_ListenerStartsWithInitialState ==
    /\ svc.status = "notStarted" => obs.seen = <<>>
    /\ svc.status # "notStarted" =>
          /\ Len(obs.seen) >= 1
          /\ obs.seen[1] = initialStateValue(MachineOf(machine).config)
          /\ obs.seenEvents[1] = [kind |-> "object", type |-> <<"xstate.init">>]
          /\ \A i \in 2..Len(obs.seenEvents) :
                obs.seenEvents[i].type # <<"xstate.init">>

C12_Witness ==
    /\ machine = "delayed"
    /\ obs.nSent = 2 /\ obs.thrown = 1
    /\ obs.seen = <<Leaf("green"), Leaf("yellow")>>
    /\ obs.seenEvents[1].type = <<"xstate.init">>
    /\ obs.seenEvents[2].type = <<"TIMER">>

\* the activities the nodes declare
ActivitiesOf(M, nodes) ==
    UNION {Range(getNode(M.config, n).activities) : n \in nodes}

\* C13: while the service runs, the activities that are running are exactly the
\* activities of the active nodes: started on entry, at start for the initial state,
\* and stopped on exit
C13_ActivitiesFollowNodes ==
    svc.status = "running" =>
        svc.activities = ActivitiesOf(MachineOf(machine), ActiveNodes(svc.state.value))

C13_Witness ==
    /\ machine = "activityNested" /\ svc.status = "running"
    /\ obs.seen = <<Obj1("on", Leaf("low")), Obj1("on", Leaf("high")), Leaf("off")>>
    /\ svc.activities = {}

\* the macrostep in which the event of a trace entry was emitted
EmittedIn(t) == IF t.by = 0 THEN 1 ELSE obs.trace[t.by].macro

\* the last call of send was made on the running raising machine in s0 with event e,
\* and the trace is still the one of that call
SentFromS0(e) ==
    /\ machine = "raising"
    /\ obs.lastSend.def /\ obs.lastSend.status = "running"
    /\ obs.lastSend.event = e
    /\ obs.lastSend.before = Leaf("s0")
    /\ Len(obs.trace) > 0 /\ obs.trace[1].type = W(e)

\* C19: a raised event is processed in the macrostep that emitted it, and before every
\* sent event emitted in that macrostep, also when the send stands first among the
\* actions: GO in s0 of the raising machine is followed by R, R2 and only then S
C19_RaisedBeforeSent ==
    /\ \A i \in 1..Len(obs.trace) :
          obs.trace[i].origin = "raised" =>
              /\ obs.trace[i].macro = EmittedIn(obs.trace[i])
              /\ \A j \in 1..Len(obs.trace) :
                    (obs.trace[j].origin = "sent"
                        /\ EmittedIn(obs.trace[j]) = EmittedIn(obs.trace[i]))
                      => i < j
    /\ \A e \in {"GO", "GO_ZERO"} :
          SentFromS0(e) =>
              /\ [i \in 1..Len(obs.trace) |-> obs.trace[i].type]
                    = <<W(e), W("R"), W("R2"), W("S")>>
              /\ obs.lastSend.after = Leaf("s3")

C19_Witness ==
    /\ SentFromS0("GO")
    /\ svc.state.value = Leaf("s3")
    /\ obs.trace[2].origin = "raised" /\ obs.trace[3].origin = "raised"
    /\ obs.trace[4].origin = "sent"

\* C20: an event sent without delay, or with a delay of 0, is processed in a later
\* macrostep than the one that emitted it, after the configuration of that macrostep
\* was handed to the listener: SOLO in s0 shows the listener t1 and then t2
C20_SentAfterMacrostep ==
    /\ \A j \in 1..Len(obs.trace) :
          obs.trace[j].origin = "sent" =>
              /\ obs.trace[j].macro > EmittedIn(obs.trace[j])
              /\ svc.status = "running" =>
                    obs.trace[j].seenLen >
                        (IF obs.trace[j].by = 0 THEN 0
                         ELSE obs.trace[obs.trace[j].by].seenLen)
    /\ \A e \in {"SOLO", "SOLO_ZERO"} :
          SentFromS0(e) =>
              /\ obs.lastSend.after = Leaf("t2")
              /\ Len(obs.seen) >= 2
              /\ obs.seen[Len(obs.seen) - 1] = Leaf("t1")
              /\ obs.seen[Len(obs.seen)] = Leaf("t2")
              /\ Len(clock.timeouts) = 0

C20_Witness ==
    /\ SentFromS0("SOLO_ZERO")
    /\ obs.seen = <<Leaf("s0"), Leaf("t1"), Leaf("t2")>>
    /\ obs.trace[2].origin = "sent" /\ obs.trace[2].macro = 2

\* C27: a macrostep runs to completion before the listener is called: the
\* steps of one macrostep all see the listener where the first one saw it,
\* no raised event is left when a call returns, and the listener of the
\* raising machine is never shown s1 or s2, which an event raised there leaves
C27_MacrostepToCompletion ==
    /\ \A i, j \in 1..Len(obs.trace) :
          obs.trace[i].macro = obs.trace[j].macro
              => obs.trace[i].seenLen = obs.trace[j].seenLen
    /\ \A i \in 1..Len(obs.trace) :
          obs.trace[i].origin = "raised" => obs.trace[i].macro = EmittedIn(obs.trace[i])
    /\ Len(svc.raised) = 0
    /\ machine = "raising" =>
          \A i \in 1..Len(obs.seen) : obs.seen[i] \notin {Leaf("s1"), Leaf("s2")}
    /\ SentFromS0("GO") =>
          /\ Len(obs.seen) >= 3
          /\ SubSeq(obs.seen, Len(obs.seen) - 2, Len(obs.seen))
                = <<Leaf("s0"), Leaf("s2b"), Leaf("s3")>>

\* GO was sent in s0: two raised events were taken in the first macrostep and
\* the listener was called once for it, with s2b
C27_Witness ==
    /\ SentFromS0("GO")
    /\ Len(obs.trace) = 4
    /\ obs.trace[3].origin = "raised" /\ obs.trace[3].macro = 1
    /\ obs.seen = <<Leaf("s0"), Leaf("s2b"), Leaf("s3")>>

TimerOf(node) ==
    <<"xstate.after", "(", IF node = W("a") THEN "10" ELSE "5", ")", "#">>
        \o W("timed") \o <<".">> \o node

\* C26: the event of an after timer is never delivered once its node was left
\* before the delay had passed: no timer that was pending when the node was
\* left by SKIP is delivered, every timer of a node carries the same id, and
\* the ids of distinct delays and nodes differ
C26_ExitCancelsAfter ==
    machine = "timed" =>
        /\ \A d \in obs.delivered, l \in obs.left : d.timer \notin l.pending
        /\ \A l \in obs.left : Cardinality(l.pending) = 1
        /\ \A i \in 1..Len(clock.timeouts) :
              clock.timeouts[i].sendId =
                  TimerOf(IF clock.timeouts[i].timeout = 10 THEN W("a") ELSE W("b"))
        /\ \A n1, n2 \in {<<"timed", ".", "a">>, <<"timed", ".", "b">>}, d1, d2 \in {5, 10} :
              after(d1, n1) = after(d2, n2) => (d1 = d2 /\ n1 = n2)

\* a was left by SKIP at 5 and entered again; its second timer was delivered,
\* 10 after that entry, and the first one never was
C26_Witness ==
    /\ machine = "timed"
    /\ \E l \in obs.left : l.node = W("a") /\ l.pending = {1}
    /\ \E d \in obs.delivered : d.sendId = TimerOf(W("a")) /\ d.start = 5 /\ d.at = 15
    /\ svc.state.value = Leaf("b")

-----------------------------------------------------------------------------
(* graph: states as strings *)

\* a JSON value: a string, a number or an object; undefined is none of them
JStr(str) == [t |-> "string", s |-> str, n |-> 0, o |-> <<>>]
JNum(n) == [t |-> "number", s |-> <<>>, n |-> n, o |-> <<>>]
JObj(o) == [t |-> "object", s |-> <<>>, n |-> 0, o |-> o]
JUndefined == [t |-> "undefined", s |-> <<>>, n |-> 0, o |-> <<>>]

RECURSIVE JsonOfValue(_)
\* a state value as a JSON value
JsonOfValue(v) ==
    IF isString(v) THEN JStr(v.s)
    ELSE JObj([i \in 1..Len(v.o) |-> [k |-> v.o[i].k, v |-> JsonOfValue(v.o[i].v)]])

\* a context as a JSON value
JsonOfContext(ctx) ==
    IF ~ctx.def THEN JUndefined
    ELSE JObj([i \in 1..Len(ctx.o) |-> [k |-> W(ctx.o[i].k), v |-> JNum(ctx.o[i].v)]])

\* the numbers a context holds
MaxNumber == 9

Quote == "\""

RECURSIVE JSONstringify(_)
\* JSON.stringify(j); for undefined it returns undefined, which + writes as
\* the text undefined
JSONstringify(j) ==
    IF j.t = "undefined" THEN <<"undefined">>
    ELSE IF j.t = "string" THEN <<Quote>> \o j.s \o <<Quote>>
    ELSE IF j.t = "number" THEN <<ToString(j.n)>>
    ELSE <<"{">>
         \o Join([i \in 1..Len(j.o) |->
                     <<Quote>> \o j.o[i].k \o <<Quote, ":">> \o JSONstringify(j.o[i].v)],
                 ",")
         \o <<"}">>

SyntaxError == [ok |-> FALSE, v |-> JUndefined, next |-> 0]
Parsed(v, next) == [ok |-> TRUE, v |-> v, next |-> next]

RECURSIVE parseValue(_, _)
RECURSIVE parseMembers(_, _, _)
\* the JSON value that starts at text[i], and where the text goes on after it
parseValue(text, i) ==
    IF i > Len(text) THEN SyntaxError
    ELSE IF text[i] = Quote
    THEN LET closing == {j \in (i + 1)..Len(text) : text[j] = Quote}
         IN IF closing = {} THEN SyntaxError
            ELSE LET j == CHOOSE c \in closing : \A d \in closing : c <= d
                 IN Parsed(JStr(SubSeq(text, i + 1, j - 1)), j + 1)
    ELSE IF text[i] = "{"
    THEN IF i < Len(text) /\ text[i + 1] = "}" THEN Parsed(JObj(<<>>), i + 2)
         ELSE parseMembers(text, i + 1, <<>>)
    ELSE IF \E n \in 0..MaxNumber : ToString(n) = text[i]
    THEN Parsed(JNum(CHOOSE n \in 0..MaxNumber : ToString(n) = text[i]), i + 1)
    ELSE SyntaxError

\* the members of an object from text[i] on, after those in acc
parseMembers(text, i, acc) ==
    LET key == parseValue(text, i)
    IN IF ~key.ok \/ key.v.t # "string" \/ key.next > Len(text) THEN SyntaxError
       ELSE IF text[key.next] # ":" THEN SyntaxError
       ELSE LET val == parseValue(text, key.next + 1)
                members == Append(acc, [k |-> key.v.s, v |-> val.v])
            IN IF ~val.ok \/ val.next > Len(text) THEN SyntaxError
               ELSE IF text[val.next] = "," THEN parseMembers(text, val.next + 1, members)
               ELSE IF text[val.next] = "}" THEN Parsed(JObj(members), val.next + 1)
               ELSE SyntaxError

\* JSON.parse(text): the text is one JSON value and nothing else, or a
\* SyntaxError is thrown
JSONparse(text) ==
    LET r == parseValue(text, 1)
    IN IF r.ok /\ r.next = Len(text) + 1 THEN r ELSE SyntaxError

\* the separator of value and context in a serialized state
SEPARATOR == " | "

serializeState(state) ==
    JSONstringify(JsonOfValue(state.value)) \o <<SEPARATOR>>
        \o JSONstringify(JsonOfContext(state.context))

\* the second element of the split is undefined when there is no separator,
\* and JSON.parse(undefined) parses the text undefined
deserializeStateString(valueContextString) ==
    LET parts == Split(valueContextString, SEPARATOR)
        valueString == parts[1]
        contextString == IF Len(parts) > 1 THEN parts[2] ELSE <<"undefined">>
        value == JSONparse(valueString)
        context == JSONparse(contextString)
    IN IF value.ok /\ context.ok
       THEN [threw |-> FALSE, value |-> value.v, context |-> context.v]
       ELSE [threw |-> TRUE, value |-> JUndefined, context |-> JUndefined]

-----------------------------------------------------------------------------
(* graph: the adjacency map of a machine *)

\* an object as the pairs [k |-> key, v |-> value] in the order of insertion
Has(o, k) == \E i \in 1..Len(o) : o[i].k = k
At(o, k) == o[CHOOSE i \in 1..Len(o) : o[i].k = k].v

\* JSON.stringify(stateValue)
KeyOf(stateValue) == JSONstringify(JsonOfValue(stateValue))

RECURSIVE eventsOfNode(_)
\* node.events: the events of the node itself, then those of its children
eventsOfNode(node) ==
    Dedupe([i \in 1..Len(node.on) |-> node.on[i].event]
           \o flatten([i \in 1..Len(node.states) |-> eventsOfNode(node.states[i])]))

RECURSIVE findAdjacencies(_, _, _, _)
RECURSIVE findAdjacenciesOf(_, _, _, _, _)
\* findAdjacencies(stateValue) of getAdjacencyMap: a state value met before
\* is left alone
findAdjacencies(M, context, adjacency, stateValue) ==
    IF Has(adjacency, KeyOf(stateValue)) THEN adjacency
    ELSE findAdjacenciesOf(M, context, Put(adjacency, KeyOf(stateValue), <<>>),
                           stateValue, 1)

\* the loop over the events that ends after the first of them
findAdjacenciesOfFirst(M, context, adjacency, stateValue, i) ==
    IF i > 1 \/ i > Len(eventsOfNode(M.config)) THEN adjacency
    ELSE LET event == eventsOfNode(M.config)[i]
             nextState == transition(M, FromValue(stateValue), EvStr(event), context)
             stateKey == KeyOf(stateValue)
         IN findAdjacenciesOf(M, context,
                findAdjacencies(M, context,
                    Put(adjacency, stateKey,
                        Put(At(adjacency, stateKey), event, nextState.value)),
                    nextState.value),
                stateValue, i + 1)

\* the loop over the events, from events[i] on
findAdjacenciesOf(M, context, adjacency, stateValue, i) ==
    IF i > Len(eventsOfNode(M.config)) THEN adjacency
    ELSE LET event == eventsOfNode(M.config)[i]
             nextState == transition(M, FromValue(stateValue), EvStr(event), context)
             stateKey == KeyOf(stateValue)
         IN findAdjacenciesOf(M, context,
                findAdjacencies(M, context,
                    Put(adjacency, stateKey,
                        Put(At(adjacency, stateKey), event, nextState.value)),
                    nextState.value),
                stateValue, i + 1)

getAdjacencyMap(M, context) ==
    findAdjacencies(M, context, <<>>, initialState(M).value)

-----------------------------------------------------------------------------
(* graph: shortest paths *)

\* a segment of a path: a state and the event taken there
Segment(state, event) == [state |-> state, event |-> event]

RECURSIVE shortestNoted(_, _, _, _, _)
\* the first loop of util: the path of every neighbour not yet reached, or
\* reached by a longer path, becomes the path of stateValue and one segment
shortestNoted(M, adjacency, pathMap, stateValue, i) ==
    LET stateId == KeyOf(stateValue)
        eventMap == At(adjacency, stateId)
    IN IF i > Len(eventMap) THEN pathMap
       ELSE LET nextStateValue == eventMap[i].v
                nextStateId == KeyOf(toStateValue(AsValue(nextStateValue), M.delimiter))
            IN IF Falsy(nextStateValue)
               THEN shortestNoted(M, adjacency, pathMap, stateValue, i + 1)
               ELSE IF \/ ~Has(pathMap, nextStateId)
                       \/ Len(At(pathMap, nextStateId)) > Len(At(pathMap, stateId)) + 1
               THEN shortestNoted(M, adjacency,
                        Put(pathMap, nextStateId,
                            Append(At(pathMap, stateId),
                                   Segment(stateValue, eventMap[i].k))),
                        stateValue, i + 1)
               ELSE shortestNoted(M, adjacency, pathMap, stateValue, i + 1)

RECURSIVE shortestUtil(_, _, _, _)
RECURSIVE shortestVisits(_, _, _, _, _)
\* util(stateValue) of getShortestPaths; acc is the pathMap and the visited set
shortestUtil(M, adjacency, acc, stateValue) ==
    shortestVisits(M, adjacency,
                   [pathMap |-> shortestNoted(M, adjacency, acc.pathMap, stateValue, 1),
                    visited |-> acc.visited \cup {KeyOf(stateValue)}],
                   stateValue, 1)

\* the second loop of util: every neighbour not yet visited is visited
shortestVisits(M, adjacency, acc, stateValue, i) ==
    LET eventMap == At(adjacency, KeyOf(stateValue))
    IN IF i > Len(eventMap) THEN acc
       ELSE IF Falsy(eventMap[i].v) \/ KeyOf(eventMap[i].v) \in acc.visited
       THEN shortestVisits(M, adjacency, acc, stateValue, i + 1)
       ELSE shortestVisits(M, adjacency,
                           shortestUtil(M, adjacency, acc, eventMap[i].v),
                           stateValue, i + 1)

\* machine.states is an object for every machine, so the early return of the
\* empty map is never taken
getShortestPathsOf(M, adjacency) ==
    shortestUtil(M, adjacency,
                 [pathMap |-> <<[k |-> KeyOf(initialState(M).value), v |-> <<>>]>>,
                  visited |-> {}],
                 initialState(M).value).pathMap

getShortestPaths(M, context) == getShortestPathsOf(M, getAdjacencyMap(M, context))

-----------------------------------------------------------------------------
(* graph: simple paths *)

RECURSIVE simpleUtil(_, _, _, _)
RECURSIVE simpleEach(_, _, _, _, _)
\* util that leaves fromPathId in the visited set when it returns
simpleUtilStaysVisited(adjacency, acc, fromPathId, toPathId) ==
    LET entered == [acc EXCEPT !.visited = @ \cup {fromPathId}]
        walked == IF fromPathId = toPathId
                  THEN [entered EXCEPT
                           !.paths = Put(@, toPathId,
                                         Append(IF Has(@, toPathId) THEN At(@, toPathId)
                                                ELSE <<>>,
                                                entered.path))]
                  ELSE simpleEach(adjacency, entered, fromPathId, toPathId, 1)
    IN [walked EXCEPT !.path = IF Len(@) = 0 THEN @ ELSE SubSeq(@, 1, Len(@) - 1)]

\* util(fromPathId, toPathId) of getSimplePaths; acc is the visited set, the
\* path walked so far and the paths found
simpleUtil(adjacency, acc, fromPathId, toPathId) ==
    LET entered == [acc EXCEPT !.visited = @ \cup {fromPathId}]
        walked == IF fromPathId = toPathId
                  THEN [entered EXCEPT
                           !.paths = Put(@, toPathId,
                                         Append(IF Has(@, toPathId) THEN At(@, toPathId)
                                                ELSE <<>>,
                                                entered.path))]
                  ELSE simpleEach(adjacency, entered, fromPathId, toPathId, 1)
    IN [walked EXCEPT !.path = IF Len(@) = 0 THEN @ ELSE SubSeq(@, 1, Len(@) - 1),
                      !.visited = @ \ {fromPathId}]

\* the loop over the events of fromPathId, from the i-th on
simpleEach(adjacency, acc, fromPathId, toPathId, i) ==
    LET eventMap == At(adjacency, fromPathId)
    IN IF i > Len(eventMap) THEN acc
       ELSE IF Falsy(eventMap[i].v) \/ KeyOf(eventMap[i].v) \in acc.visited
       THEN simpleEach(adjacency, acc, fromPathId, toPathId, i + 1)
       ELSE simpleEach(adjacency,
                simpleUtil(adjacency,
                    [acc EXCEPT !.path = Append(@, Segment(JSONparse(fromPathId).v,
                                                           eventMap[i].k))],
                    KeyOf(eventMap[i].v), toPathId),
                fromPathId, toPathId, i + 1)

RECURSIVE simpleToEach(_, _, _, _)
\* keys(adjacency).forEach(nextStateId => util(initialStateId, nextStateId))
simpleToEach(adjacency, acc, initialStateId, i) ==
    IF i > Len(adjacency) THEN acc
    ELSE simpleToEach(adjacency,
                      simpleUtil(adjacency, acc, initialStateId, adjacency[i].k),
                      initialStateId, i + 1)

getSimplePathsOf(M, adjacency) ==
    simpleToEach(adjacency, [visited |-> {}, path |-> <<>>, paths |-> <<>>],
                 KeyOf(initialState(M).value), 1).paths

getSimplePaths(M, context) == getSimplePathsOf(M, getAdjacencyMap(M, context))

-----------------------------------------------------------------------------
(* graph: the adjacency map and the shortest paths of states with a context *)

RECURSIVE findValueAdjacencies(_, _, _)
RECURSIVE findValueAdjacenciesOf(_, _, _, _)
\* findAdjacencies(state) of getValueAdjacencyMap, without a filter and with no
\* events given for an event type, so that the event is the type itself
findValueAdjacencies(M, adjacency, state) ==
    IF Has(adjacency, serializeState(state)) THEN adjacency
    ELSE findValueAdjacenciesOf(M, Put(adjacency, serializeState(state), <<>>), state, 1)

findValueAdjacenciesOf(M, adjacency, state, i) ==
    IF i > Len(eventsOfNode(M.config)) THEN adjacency
    ELSE LET event == eventsOfNode(M.config)[i]
             nextState == transition(M, FromState(state), EvStr(event), NoContext)
             stateKey == serializeState(state)
         IN findValueAdjacenciesOf(M,
                findValueAdjacencies(M,
                    Put(adjacency, stateKey,
                        Put(At(adjacency, stateKey), event,
                            [value |-> nextState.value, context |-> nextState.context])),
                    nextState),
                state, i + 1)

getValueAdjacencyMap(M) == findValueAdjacencies(M, <<>>, initialState(M))

RECURSIVE shortestValueNoted(_, _, _, _)
\* the first loop of util; pathMap[stateKey].length is a TypeError when the
\* state has no path yet
shortestValueNoted(adjacency, acc, state, i) ==
    LET stateKey == serializeState(state)
        eventMap == At(adjacency, stateKey)
    IN IF i > Len(eventMap) \/ acc.threw THEN acc
       ELSE LET value == eventMap[i].v.value
                nextStateId == serializeState(StateFrom(value, eventMap[i].v.context))
            IN IF Falsy(value) THEN shortestValueNoted(adjacency, acc, state, i + 1)
               ELSE IF Has(acc.pathMap, nextStateId) /\ ~Has(acc.pathMap, stateKey)
               THEN [acc EXCEPT !.threw = TRUE]
               ELSE IF \/ ~Has(acc.pathMap, nextStateId)
                       \/ Len(At(acc.pathMap, nextStateId))
                              > Len(At(acc.pathMap, stateKey)) + 1
               THEN shortestValueNoted(adjacency,
                        [acc EXCEPT !.pathMap =
                            Put(@, nextStateId,
                                Append(IF Has(@, stateKey) THEN At(@, stateKey) ELSE <<>>,
                                       Segment(value, eventMap[i].k)))],
                        state, i + 1)
               ELSE shortestValueNoted(adjacency, acc, state, i + 1)

RECURSIVE shortestValueUtil(_, _, _)
RECURSIVE shortestValueVisits(_, _, _, _)
\* util(state) of getShortestValuePaths; acc is the pathMap, the visited set
\* and whether an error was thrown
shortestValueUtil(adjacency, acc, state) ==
    shortestValueVisits(adjacency,
        shortestValueNoted(adjacency,
                           [acc EXCEPT !.visited = @ \cup {serializeState(state)}],
                           state, 1),
        state, 1)

shortestValueVisits(adjacency, acc, state, i) ==
    LET eventMap == At(adjacency, serializeState(state))
    IN IF i > Len(eventMap) \/ acc.threw THEN acc
       ELSE LET nextState == StateFrom(eventMap[i].v.value, eventMap[i].v.context)
            IN IF Falsy(eventMap[i].v.value) \/ serializeState(nextState) \in acc.visited
               THEN shortestValueVisits(adjacency, acc, state, i + 1)
               ELSE shortestValueVisits(adjacency,
                                        shortestValueUtil(adjacency, acc, nextState),
                                        state, i + 1)

\* the result: the pathMap, or the TypeError thrown on the way
getShortestValuePathsOf(M, adjacency) ==
    shortestValueUtil(adjacency, [pathMap |-> <<>>, visited |-> {}, threw |-> FALSE],
                      initialState(M))

getShortestValuePaths(M) == getShortestValuePathsOf(M, getValueAdjacencyMap(M))

-----------------------------------------------------------------------------
(* The functions of utils, called on their own *)

\* the most keys and leaves an argument is built of
MaxSize == 4

UtilKeys == {"red", "walk"}

RECURSIVE PairsOfSize(_, _)
RECURSIVE ValuesOfSize(_)
\* the key/value lists of n keys and leaves in all, over the given keys, in
\* every order of insertion
PairsOfSize(n, ks) ==
    IF n = 0 THEN {<<>>}
    ELSE UNION {UNION {{<<[k |-> W(k), v |-> v]>> \o rest :
                            v \in ValuesOfSize(m),
                            rest \in PairsOfSize(n - 1 - m, ks \ {k})} :
                       m \in 0..(n - 1)} :
                k \in ks}

\* the state values of n keys and leaves: a leaf string counts one, a
\* mapping counts its keys and what stands under them
ValuesOfSize(n) ==
    (IF n = 1 THEN {StrVal(W(k)) : k \in UtilKeys} ELSE {})
        \cup {ObjVal(o) : o \in PairsOfSize(n, UtilKeys)}

UtilValues == UNION {ValuesOfSize(n) : n \in 0..MaxSize}

RECURSIVE HasEmptyMapping(_)
HasEmptyMapping(v) ==
    /\ ~isString(v)
    /\ \/ Len(v.o) = 0
       \/ \E i \in 1..Len(v.o) : HasEmptyMapping(v.o[i].v)

\* a call still to be made, with its arguments
ToCall(args) == [fn |-> "none", args |-> args]
Called(fn, out) == [fn |-> fn, args |-> util.args, out |-> out]

MatchInputs ==
    {[kind |-> "match", pattern |-> p, value |-> v] : p \in UtilValues, v \in UtilValues}

ValueInputs == {[kind |-> "value", value |-> v] : v \in UtilValues}

RECURSIVE PathsOfLength(_)
PathsOfLength(n) ==
    IF n = 0 THEN {<<>>}
    ELSE {<<W(k)>> \o p : k \in UtilKeys, p \in PathsOfLength(n - 1)}

RECURSIVE PathListsOfSize(_)
\* the lists of paths of n segments in all
PathListsOfSize(n) ==
    IF n = 0 THEN {<<>>}
    ELSE UNION {{<<p>> \o rest : p \in PathsOfLength(m),
                                rest \in PathListsOfSize(n - m)} :
                m \in 1..n}

\* one path per region: no path is a prefix of another
WellFormedPaths(paths) ==
    /\ Len(paths) > 0
    /\ \A i, j \in 1..Len(paths) : i # j => ~IsPrefix(paths[i], paths[j])

PathsInputs ==
    {[kind |-> "paths", paths |-> ps] :
        ps \in {l \in UNION {PathListsOfSize(n) : n \in 1..MaxSize} :
                    WellFormedPaths(l)}}

\* the most assignments handed to updateContext in one call
MaxAssigns == 2

UtilAssigns ==
    {assign(PropAssigner(<<PropFn("count", FnCountPlusOne)>>)),
     assign(PropAssigner(<<PropLit("count", 5)>>)),
     assign(PropAssigner(<<PropLit("other", 7), PropFn("count", FnCountPlusOne)>>)),
     assign([isFn |-> TRUE, fn |-> FnCopyCount, props |-> <<>>]),
     assign([isFn |-> TRUE, fn |-> FnCtx, props |-> <<>>])}

RECURSIVE AssignLists(_)
AssignLists(n) ==
    IF n = 0 THEN {<<>>}
    ELSE {<<a>> \o rest : a \in UtilAssigns, rest \in AssignLists(n - 1)}

UtilContexts ==
    {Ctx(<<[k |-> "count", v |-> c], [k |-> "other", v |-> o]>>) : c, o \in 0..1}

ContextInputs ==
    {[kind |-> "context", context |-> c, assigns |-> l] :
        c \in UtilContexts, l \in UNION {AssignLists(n) : n \in 0..MaxAssigns}}

EventInputs ==
    {[kind |-> "event", event |-> e] :
        e \in {EvStr(W("TIMER")), EvObj(W("TIMER")), EvStr(<<>>), EvObj(<<>>),
                EvUntyped, EvNull, NoEvent}}

\* the values of a node with the children A and C, A with the children B and
\* a1, B with the children b1 and b2
InA(v) == ObjVal(<<[k |-> W("A"), v |-> v]>>)
InB(v) == ObjVal(<<[k |-> W("B"), v |-> v]>>)
ValuesOfA == {StrVal(W("a1")), InB(StrVal(W("b1"))), InB(StrVal(W("b2")))}
ValuesOfB == {StrVal(W("b1")), StrVal(W("b2"))}
TreeValues == {StrVal(W("C"))} \cup {InA(v) : v \in ValuesOfA}

\* the history of that node: only A and B, which have children, have an entry
TreeHistory(current, ofA, ofB) ==
    Hist(current,
         <<[k |-> W("A"),
            v |-> Hist(ofA, <<[k |-> W("B"),
                               v |-> Hist(ofB, <<[k |-> W("b1"), v |-> NoHistory],
                                                 [k |-> W("b2"), v |-> NoHistory]>>)],
                              [k |-> W("a1"), v |-> NoHistory]>>)],
           [k |-> W("C"), v |-> NoHistory]>>)

\* the histories a run can have recorded: what is remembered of B is what A
\* remembers of it, when A was last active in B
\* the objects of that history, the history itself first
TreeStore(current, ofA, ofB) ==
    <<HistCell(current, 2),
      Cell(<<[k |-> W("A"), v |-> 3], [k |-> W("C"), v |-> 0]>>),
      HistCell(ofA, 4),
      Cell(<<[k |-> W("B"), v |-> 5], [k |-> W("a1"), v |-> 0]>>),
      HistCell(ofB, 6),
      Cell(<<[k |-> W("b1"), v |-> 0], [k |-> W("b2"), v |-> 0]>>)>>

HistoryInputs ==
    {[kind |-> "history", hist |-> TreeHistory(t[1], t[2], t[3]), value |-> t[1],
      lastA |-> t[2], lastB |-> t[3], n |-> 0,
      store |-> TreeStore(t[1], t[2], t[3]), ref |-> 1,
      before |-> TreeStore(t[1], t[2], t[3]), given |-> 1] :
        t \in {u \in TreeValues \X ValuesOfA \X ValuesOfB :
                  /\ ~isString(u[2]) => Get(u[2], W("B")) = u[3]
                  /\ ~isString(u[1]) => Get(u[1], W("A")) = u[2]}}

\* the events, targets, delays and ids a send action is built with
SendEvents ==
    {OfEvent(EvStr(W("TIMER"))), OfEvent(EvObj(W("TIMER"))),
     OfEvent(EvStr(W("PING"))), OfFn(W("makeEvent"))}
SendTargets == {NoTarget, Target(W("parent")), TargetExpr(FnTargetOfEvent)}
SendDelays == {NoDelay, Delay(10), DelayExpr(FnDelayOfCount)}
SendIds == {None, Some(W("myId"))}

\* a send action, and the context and event it is resolved with
ResolveInputs ==
    {[kind |-> "resolve", action |-> send(e, OptionsTo(t, d, i)), context |-> c,
      event |-> ev] :
        e \in SendEvents, t \in SendTargets, d \in SendDelays, i \in SendIds,
        c \in UtilContexts, ev \in {EvObj(W("INC")), EvObj(W("DEC"))}}

\* two sends with a delay and the id a cancel is built with
SendInputs ==
    {[kind |-> "send", first |-> e1, firstId |-> i1, second |-> e2, secondId |-> i2,
      sendId |-> c, options |-> o] :
        e1 \in SendEvents, e2 \in SendEvents, i1 \in SendIds, i2 \in SendIds,
        c \in {W("TIMER"), W("PING"), W("myId"), W("makeEvent")},
        o \in BOOLEAN}

\* a delimiter a machine is configured with in place of the default
OtherDelimiter == "/"

\* strings with and without a delimiter in them, as leaves and one and two
\* levels below the key red
DelimitedLeaves ==
    {StrVal(s) : s \in {W("red"), W("walk"), <<"red", STATE_DELIMITER, "walk">>,
                         <<"red", OtherDelimiter, "walk">>}}
DelimitedValues ==
    DelimitedLeaves \cup {Obj1("red", l) : l \in DelimitedLeaves}
                    \cup {Obj1("red", Obj1("red", l)) : l \in DelimitedLeaves}

DelimiterInputs ==
    {[kind |-> "delimiter", pattern |-> p, value |-> v] :
        p \in DelimitedValues, v \in DelimitedValues}

\* states to serialize: values with and without the separator in a key or a
\* leaf, contexts with and without numbers, and no context
SerializedValues ==
    {StrVal(W("green")), StrVal(<<"a", SEPARATOR, "b">>),
     Obj1("red", StrVal(W("walk"))), Obj1("red", StrVal(<<"a", SEPARATOR, "b">>)),
     ObjVal(<<[k |-> <<"a", SEPARATOR, "b">>, v |-> StrVal(W("walk"))]>>),
     ObjVal(<<[k |-> W("bold"), v |-> StrVal(W("on"))],
              [k |-> W("list"), v |-> Obj1("bullets", StrVal(W("none")))]>>),
     EMPTY_OBJECT}
SerializedContexts ==
    {NoContext, Ctx(<<>>)} \cup UtilContexts
        \cup {Ctx(<<[k |-> "count", v |-> c]>>) : c \in {0, MaxNumber}}

StateInputs ==
    {[kind |-> "state", state |-> StateFrom(v, c)] :
        v \in SerializedValues, c \in SerializedContexts}

InitUtils ==
    /\ machine = "light"
    /\ cur = initialState(MachineOf(machine))
    /\ last = NoCall
    /\ run = [start |-> initialStateValue(MachineOf(machine).config), nTimer |-> 0]
    /\ exited = "none"
    /\ svc = NoService
    /\ clock = NoClock
    /\ obs = NoObs
    /\ util \in {ToCall(a) : a \in MatchInputs \cup ValueInputs \cup PathsInputs
                                     \cup ContextInputs \cup EventInputs
                                     \cup HistoryInputs \cup ResolveInputs
                                     \cup SendInputs \cup DelimiterInputs
                                     \cup StateInputs}

\* matchesState(pattern, value)
MatchesState ==
    /\ util.fn = "none"
    /\ util.args.kind = "match"
    /\ util' = Called("matchesState",
                      matchesState(util.args.pattern, util.args.value, STATE_DELIMITER))
    /\ UNCHANGED <<machine, cur, last, run, exited, svc, clock, obs>>

\* pathsToStateValue(toStatePaths(value))
ValueOfPaths ==
    /\ util.fn = "none"
    /\ util.args.kind = "value"
    /\ util' = Called("valueOfPaths", pathsToStateValue(toStatePaths(util.args.value)))
    /\ UNCHANGED <<machine, cur, last, run, exited, svc, clock, obs>>

\* toStatePaths(pathsToStateValue(paths))
PathsOfValue ==
    /\ util.fn = "none"
    /\ util.args.kind = "paths"
    /\ util' = Called("pathsOfValue", toStatePaths(pathsToStateValue(util.args.paths)))
    /\ UNCHANGED <<machine, cur, last, run, exited, svc, clock, obs>>

\* getEventType(event)
GetEventType ==
    /\ util.fn = "none"
    /\ util.args.kind = "event"
    /\ util' = Called("getEventType", getEventType(util.args.event))
    /\ UNCHANGED <<machine, cur, last, run, exited, svc, clock, obs>>

\* updateContext(context, event, assignActions)
UpdateContext ==
    /\ util.fn = "none"
    /\ util.args.kind = "context"
    /\ util' = [fn |-> "updateContext",
                args |-> util.args,
                out |-> updateContext(util.args.context, EvStr(W("INC")),
                                      util.args.assigns),
                made |-> updateContextIn(<<Cell(util.args.context.o)>>, 1,
                                         EvStr(W("INC")), util.args.assigns)]
    /\ UNCHANGED <<machine, cur, last, run, exited, svc, clock, obs>>

\* updateHistoryValue(hist, value), with the history the call before returned;
\* what A and B were when last active is noted on the side
UpdateHistoryValue(v) ==
    /\ util.args.kind = "history"
    /\ util.args.n < MaxSteps
    /\ util' = [fn |-> "updateHistoryValue",
                args |-> [kind |-> "history",
                          hist |-> updateHistoryValue(util.args.hist, v),
                          value |-> v,
                          lastA |-> IF isString(v) THEN util.args.lastA
                                    ELSE Get(v, W("A")),
                          lastB |-> IF isString(v) \/ isString(Get(v, W("A")))
                                    THEN util.args.lastB
                                    ELSE Get(Get(v, W("A")), W("B")),
                          n |-> util.args.n + 1,
                          store |-> updateHistoryValueIn(util.args.store,
                                                         util.args.ref, v).store,
                          ref |-> updateHistoryValueIn(util.args.store,
                                                       util.args.ref, v).ref,
                          before |-> util.args.store,
                          given |-> util.args.ref],
                out |-> updateHistoryValue(util.args.hist, v)]
    /\ UNCHANGED <<machine, cur, last, run, exited, svc, clock, obs>>

\* resolveSend(action, ctx, event)
ResolveSend ==
    /\ util.fn = "none"
    /\ util.args.kind = "resolve"
    /\ util' = Called("resolveSend",
                      resolveSend(util.args.action, util.args.context, util.args.event))
    /\ UNCHANGED <<machine, cur, last, run, exited, svc, clock, obs>>

\* the options of a send: { delay, id }, or none at all
SendOptions(given, delay, id) == IF given THEN Options(Delay(delay), id) ELSE NoOptions

\* send(first, ...), send(second, ...) and cancel(sendId), and a service that
\* executes the three in this order
SendAndCancel ==
    /\ util.fn = "none"
    /\ util.args.kind = "send"
    /\ LET first == send(util.args.first,
                         SendOptions(util.args.options, 10, util.args.firstId))
           second == send(util.args.second,
                          SendOptions(util.args.options, 20, util.args.secondId))
           sent == execAll(interpret(MachineOf("light")),
                           <<resolveSend(first, NoContext, EvObj(W("INC"))),
                             resolveSend(second, NoContext, EvObj(W("INC")))>>)
       IN util' = Called("send",
                         [first |-> first, second |-> second,
                          cancel |-> cancel(util.args.sendId),
                          pending |-> sent.clock.timeouts,
                          left |-> exec(sent, cancel(util.args.sendId)).clock.timeouts])
    /\ UNCHANGED <<machine, cur, last, run, exited, svc, clock, obs>>

\* a string with every token a replaced by b and every b by a
ExchangedString(str, a, b) ==
    [i \in 1..Len(str) |-> IF str[i] = a THEN b ELSE IF str[i] = b THEN a ELSE str[i]]

RECURSIVE Exchanged(_, _, _)
\* a state value with the two delimiters exchanged in every leaf
Exchanged(v, a, b) ==
    IF isString(v) THEN StrVal(ExchangedString(v.s, a, b))
    ELSE ObjVal([i \in 1..Len(v.o) |->
                    [k |-> v.o[i].k, v |-> Exchanged(v.o[i].v, a, b)]])

\* matchesState(pattern, value, '/'), and matchesState with the default
\* delimiter on the same values with '/' and '.' exchanged
MatchesStateDelimited ==
    /\ util.fn = "none"
    /\ util.args.kind = "delimiter"
    /\ util' = Called("matchesStateDelimited",
                      [given |-> matchesState(util.args.pattern, util.args.value,
                                              OtherDelimiter),
                       exchanged |->
                           matchesState(
                               Exchanged(util.args.pattern, OtherDelimiter, STATE_DELIMITER),
                               Exchanged(util.args.value, OtherDelimiter, STATE_DELIMITER),
                               STATE_DELIMITER)])
    /\ UNCHANGED <<machine, cur, last, run, exited, svc, clock, obs>>

\* deserializeStateString(serializeState(state))
Deserialize ==
    /\ util.fn = "none"
    /\ util.args.kind = "state"
    /\ util' = Called("deserializeStateString",
                      deserializeStateString(serializeState(util.args.state)))
    /\ UNCHANGED <<machine, cur, last, run, exited, svc, clock, obs>>

NextUtils ==
    \/ Deserialize
    \/ ResolveSend
    \/ MatchesStateDelimited
    \/ SendAndCancel
    \/ MatchesState
    \/ ValueOfPaths
    \/ PathsOfValue
    \/ UpdateContext
    \/ GetEventType
    \/ \E v \in TreeValues : UpdateHistoryValue(v)

SpecUtils == InitUtils /\ [][NextUtils]_vars

-----------------------------------------------------------------------------
(* Properties of the functions of utils *)

\* the paths a value denotes, written from the definition of a state value
RECURSIVE LeafPaths(_)
LeafPaths(v) ==
    IF isString(v) THEN {<<v.s>>}
    ELSE IF Len(v.o) = 0 THEN {<<>>}
    ELSE UNION {{<<v.o[i].k>> \o p : p \in LeafPaths(v.o[i].v)} : i \in 1..Len(v.o)}

\* pattern is a prefix of value in every region the pattern names
PrefixInEveryRegion(pattern, value) ==
    \A p \in LeafPaths(pattern) : \E q \in LeafPaths(value) : IsPrefix(p, q)

Red == StrVal(W("red"))
RedWalk == ObjVal(<<[k |-> W("red"), v |-> StrVal(W("walk"))]>>)

C22_ValueRoundTrip ==
    util.fn = "valueOfPaths" => ValEq(util.out, util.args.value)

\* C23: for every list of paths of which none is a prefix of another,
\* toStatePaths(pathsToStateValue(P)) yields exactly the paths of P
C23_PathsRoundTrip ==
    util.fn = "pathsOfValue" =>
        /\ Range(util.out) = Range(util.args.paths)
        /\ Len(util.out) = Len(util.args.paths)

\* what one assignment makes of a context of count c and other o, as the
\* functions and literals it is written with say
Assigned(a, c, o) ==
    IF a.assignment.isFn
    THEN IF a.assignment.fn = FnCopyCount THEN <<c, c>> ELSE <<c, o>>
    ELSE IF Len(a.assignment.props) = 2 THEN <<c + 1, 7>>
    ELSE IF a.assignment.props[1].isFn THEN <<c + 1, o>>
    ELSE <<5, o>>

RECURSIVE Folded(_, _)
\* the assignments applied one after the other, each to the result of the
\* ones before it
Folded(assigns, co) ==
    IF Len(assigns) = 0 THEN co
    ELSE Folded(Tail(assigns), Assigned(Head(assigns), co[1], co[2]))

\* C24: updateContext applies the assignments left to right, each to the
\* context the earlier ones produced; keys not assigned keep their value and
\* an empty list gives back the context
C24_ContextFold ==
    util.fn = "updateContext" =>
        /\ <<CtxGet(util.out, "count"), CtxGet(util.out, "other")>>
              = Folded(util.args.assigns,
                       <<CtxGet(util.args.context, "count"),
                         CtxGet(util.args.context, "other")>>)
        /\ {util.out.o[i].k : i \in 1..Len(util.out.o)} = {"count", "other"}
        /\ Len(util.out.o) = 2
        /\ Len(util.args.assigns) = 0 => util.out = util.args.context

\* the second assignment read what the first one wrote: count was set to 5
\* and then copied to other
C24_Witness ==
    /\ util.fn = "updateContext"
    /\ Len(util.args.assigns) = 2
    /\ util.args.assigns[1].assignment.props = <<PropLit("count", 5)>>
    /\ util.args.assigns[2].assignment.fn = FnCopyCount
    /\ CtxGet(util.args.context, "other") = 0
    /\ CtxGet(util.out, "other") = 5

\* an event is a string, or an object whose type is a string
ValidEvent(event) ==
    \/ event.kind = "string"
    \/ event.kind = "object" /\ event.type # UndefinedType

\* C25: an event that is neither a string nor an object with a string type
\* (null, undefined, an object without a type) makes getEventType throw
C25_InvalidEventRejected ==
    util.fn = "getEventType" =>
        (~ValidEvent(util.args.event) => util.out = EventError)

\* C30: updateHistoryValue records the value as current and, for A and B,
\* the value of the subtree when the value has it and what was remembered
\* when it has not; after any sequence of calls what is remembered of A and
\* of B is their value when last active, and the nodes without an entry have
\* none
C30_HistoryRemembers ==
    util.fn = "updateHistoryValue" =>
        util.out = TreeHistory(util.args.value, util.args.lastA, util.args.lastB)

\* C was made current after A had been active in B, in b2, and after that in
\* a1: b2 is still what is remembered of B
C30_Witness ==
    /\ util.fn = "updateHistoryValue"
    /\ util.args.n >= 3
    /\ util.args.value = StrVal(W("C"))
    /\ util.args.lastA = StrVal(W("a1"))
    /\ Get(ObjVal(Get(ObjVal(util.out.states), W("A")).states), W("B")).current
          = StrVal(W("b2"))

\* C29: a call does not write the objects it is given: after updateContext
\* the context object holds what it held, after updateHistoryValue every
\* object of the history given, and every object there was, holds what it
\* held, and what is returned is a new object unless nothing was assigned
C29_InputsNotWritten ==
    /\ util.fn = "updateContext" =>
          /\ util.made.store[1] = Cell(util.args.context.o)
          /\ Ctx(util.made.store[util.made.ref].o) = util.out
          /\ Len(util.args.assigns) > 0 => util.made.ref # 1
    /\ util.fn = "updateHistoryValue" =>
          /\ SubSeq(util.args.store, 1, Len(util.args.before)) = util.args.before
          /\ util.args.ref > Len(util.args.before)
          /\ HistoryAt(util.args.store, util.args.ref) = util.out

\* two assignments gave a context of other values, in a new object, and the
\* object given holds what it held
C29_Witness ==
    /\ util.fn = "updateContext"
    /\ Len(util.args.assigns) = 2
    /\ util.out # util.args.context
    /\ util.made.ref = Len(util.made.store)
    /\ util.made.store[1].o = util.args.context.o

-----------------------------------------------------------------------------
(* Properties of the action builders *)

\* the fields of an action that resolveSend is not to touch
Untouched(a) ==
    [type |-> a.type, id |-> a.id, sendId |-> a.sendId, label |-> a.label,
     expr |-> a.expr, value |-> a.value, assignment |-> a.assignment,
     activity |-> a.activity]

\* C31: resolveSend evaluates an expression-valued event, delay and target
\* against the context and event it is given and copies static ones as they
\* are; type, id and every other field of the action are kept, so that a cancel
\* built with the id of the action carries the id of the resolved action
C31_ResolveSendKeepsIdentity ==
    util.fn = "resolveSend" =>
        LET a == util.args.action
            r == util.out
            count == CtxGet(util.args.context, "count")
        IN /\ Untouched(r) = Untouched(a)
           /\ r.type = actionTypes.send
           /\ cancel(a.id.v).sendId = r.id.v
           /\ r.event = IF a.event.isFn THEN OfEvent(EvObj(a.event.name)) ELSE a.event
           /\ r.delay = IF a.delay = DelayExpr(FnDelayOfCount) THEN Delay(count * 10)
                        ELSE a.delay
           /\ r.to = IF a.to = TargetExpr(FnTargetOfEvent)
                     THEN Target(util.args.event.type)
                     ELSE a.to

\* an action with an id of its own whose event, delay and target are all
\* expressions is resolved with a context that makes the delay positive
C31_Witness ==
    /\ util.fn = "resolveSend"
    /\ util.args.action.event.isFn
    /\ util.args.action.id = Some(W("myId"))
    /\ util.args.action.delay.fn = FnDelayOfCount
    /\ util.args.action.to.fn = FnTargetOfEvent
    /\ util.out.delay = Delay(10)
    /\ util.out.to = Target(W("DEC"))
    /\ util.out.id = Some(W("myId"))

\* the id a send has when none is given to it
DefaultId(event) == IF event.isFn THEN event.name ELSE event.ev.type

\* the send ids of the timeouts of a clock
PendingIds(timeouts) == {timeouts[i].sendId : i \in 1..Len(timeouts)}

\* C32: a send built without an id has as id the type of its event, or the name
\* of the function for an event expression, and a send built with options.id
\* has that id; cancel(sendId) takes every pending send of that id off the
\* clock, so a pending send without an id of its own is cancelled by the type
\* of its event, and of two pending sends of one event type without ids of
\* their own a cancel takes both or neither
C32_DefaultSendId ==
    util.fn = "send" =>
        LET given == util.args.options
            idOf(event, id, action) ==
                action.id = IF given /\ id.some THEN id ELSE Some(DefaultId(event))
            first == util.out.first
            second == util.out.second
        IN /\ idOf(util.args.first, util.args.firstId, first)
           /\ idOf(util.args.second, util.args.secondId, second)
           /\ util.out.cancel.sendId = util.args.sendId
           /\ given => /\ Len(util.out.pending) = 2
                        /\ PendingIds(util.out.pending) = {first.id.v, second.id.v}
           /\ PendingIds(util.out.left) = PendingIds(util.out.pending) \ {util.args.sendId}
           /\ (given /\ ~util.args.firstId.some
                     /\ util.args.sendId = DefaultId(util.args.first))
                => first.id.v \notin PendingIds(util.out.left)
           /\ (given /\ ~util.args.firstId.some /\ ~util.args.secondId.some
                     /\ DefaultId(util.args.first) = DefaultId(util.args.second))
                => Len(util.out.left) \in {0, 2}

\* two sends of TIMER, one of the string and one of the object, neither with an
\* id of its own, are pending and cancel('TIMER') takes both off the clock
C32_Witness ==
    /\ util.fn = "send"
    /\ util.args.options
    /\ util.args.first = OfEvent(EvStr(W("TIMER")))
    /\ util.args.second = OfEvent(EvObj(W("TIMER")))
    /\ ~util.args.firstId.some
    /\ ~util.args.secondId.some
    /\ util.args.sendId = W("TIMER")
    /\ Len(util.out.pending) = 2
    /\ Len(util.out.left) = 0
-----------------------------------------------------------------------------
(* Properties of matchesState with a delimiter of the machine *)

\* C38: matchesState applies the delimiter it is given at every depth: with the
\* delimiter '/' it answers as it does with the default delimiter on the same
\* values with '/' and '.' exchanged
C38_DelimiterAtEveryDepth ==
    util.fn = "matchesStateDelimited" => util.out.given = util.out.exchanged
-----------------------------------------------------------------------------
(* Properties of the functions of graph *)

\* C37: deserializeStateString(serializeState(s)) returns the value and the
\* context of s, for every state s: also when the context is undefined and when
\* a string of the value holds the separator
C37_SerializeRoundTrip ==
    util.fn = "deserializeStateString" =>
        /\ ~util.out.threw
        /\ util.out.value = JsonOfValue(util.args.state.value)
        /\ util.out.context = JsonOfContext(util.args.state.context)

\* where the round trip does hold: a context that is defined and no separator
\* in the value
C37_PlainRoundTrip ==
    (/\ util.fn = "deserializeStateString"
     /\ util.args.state.context.def
     /\ SEPARATOR \notin Range(JSONstringify(JsonOfValue(util.args.state.value))))
        => /\ ~util.out.threw
           /\ util.out.value = JsonOfValue(util.args.state.value)
           /\ util.out.context = JsonOfContext(util.args.state.context)
-----------------------------------------------------------------------------
(* The functions of graph, called on machines *)

\* the most nodes of a machine whose transitions lead onwards only
MaxNodes == 6
\* the nodes of a machine whose transitions lead to any node
MaxCycle == 3

GraphEvents == <<"NEXT", "SKIP">>

\* node n of a machine given as a table: table[n][e] is the node the e-th
\* event leads to, 0 when the node does not handle the event
TableNode(table, n) ==
    LET handled == SelectSeq([e \in 1..Len(GraphEvents) |-> e],
                             LAMBDA e : table[n][e] # 0)
    IN [Node(ToString(n)) EXCEPT
           !.on = [j \in 1..Len(handled) |->
                      On(GraphEvents[handled[j]], W(ToString(table[n][handled[j]])))]]

TableMachine(table) ==
    Machine([Node("table") EXCEPT
                !.initial = Some(W("1")),
                !.states = [n \in 1..Len(table) |-> TableNode(table, n)]])

RECURSIVE LadderTablesFrom(_, _)
\* the rows n..N of the tables in which NEXT leads every node but the last one
\* or two nodes on, and SKIP two nodes on, if the node handles it
LadderTablesFrom(n, N) ==
    IF n > N THEN {<<>>}
    ELSE {<<<<next, skip>>>> \o rest :
            next \in IF n = N THEN {0} ELSE {t \in (n + 1)..(n + 2) : t <= N},
            skip \in {0} \cup {t \in {n + 2} : t <= N},
            rest \in LadderTablesFrom(n + 1, N)}

\* the tables in which NEXT leads every node to some node and SKIP leads back to
\* the first node, if the node handles it
CycleTables(N) ==
    {[n \in 1..N |-> <<next[n], skip[n]>>] :
        next \in [1..N -> 1..N], skip \in [1..N -> {0, 1}]}

GraphTables == LadderTablesFrom(1, MaxNodes) \cup CycleTables(MaxCycle)

\* the machines the functions of graph are called on: those of the tables and
\* the light machines of the README, flat and nested
GraphInputs ==
    {[kind |-> "graph", machine |-> M] :
        M \in {TableMachine(t) : t \in GraphTables}
                \cup {MachineOf("light"), MachineOf("nested")}}

InitGraph ==
    /\ machine = "light"
    /\ cur = initialState(MachineOf(machine))
    /\ last = NoCall
    /\ run = [start |-> initialStateValue(MachineOf(machine).config), nTimer |-> 0]
    /\ exited = "none"
    /\ svc = NoService
    /\ clock = NoClock
    /\ obs = NoObs
    /\ util \in {ToCall(a) : a \in GraphInputs}

\* getAdjacencyMap(machine)
GetAdjacencyMap ==
    /\ util.fn = "none"
    /\ util.args.kind = "graph"
    /\ util' = Called("getAdjacencyMap", getAdjacencyMap(util.args.machine, NoContext))
    /\ UNCHANGED <<machine, cur, last, run, exited, svc, clock, obs>>

\* getShortestPaths(machine); the adjacency map it starts from is the one
\* getAdjacencyMap has returned for the machine
GetShortestPaths ==
    /\ util.fn = "getAdjacencyMap"
    /\ util' = Called("getShortestPaths",
                      [adjacency |-> util.out,
                       pathMap |-> getShortestPathsOf(util.args.machine, util.out)])
    /\ UNCHANGED <<machine, cur, last, run, exited, svc, clock, obs>>

\* getSimplePaths(machine), from the same adjacency map
GetSimplePaths ==
    /\ util.fn = "getAdjacencyMap"
    /\ util' = Called("getSimplePaths",
                      [adjacency |-> util.out,
                       paths |-> getSimplePathsOf(util.args.machine, util.out)])
    /\ UNCHANGED <<machine, cur, last, run, exited, svc, clock, obs>>

\* getShortestValuePaths(machine, { events: {} })
GetShortestValuePaths ==
    /\ util.fn = "none"
    /\ util.args.kind = "graph"
    /\ LET adjacency == getValueAdjacencyMap(util.args.machine)
           result == getShortestValuePathsOf(util.args.machine, adjacency)
       IN util' = Called("getShortestValuePaths",
                         [adjacency |-> adjacency, threw |-> result.threw,
                          pathMap |-> result.pathMap])
    /\ UNCHANGED <<machine, cur, last, run, exited, svc, clock, obs>>

NextGraph ==
    \/ GetAdjacencyMap
    \/ GetShortestPaths
    \/ GetSimplePaths
    \/ GetShortestValuePaths

SpecGraph == InitGraph /\ [][NextGraph]_vars
-----------------------------------------------------------------------------
(* Properties of the functions of graph on machines *)

KeysOf(o) == {o[i].k : i \in 1..Len(o)}

\* the state value a key of the adjacency map is the JSON text of: the initial
\* value or a value some entry leads to
ValuesIn(M, adjacency) ==
    {initialState(M).value}
        \cup UNION {{adjacency[i].v[j].v : j \in 1..Len(adjacency[i].v)} :
                        i \in 1..Len(adjacency)}
ValueOfKey(M, adjacency, key) ==
    CHOOSE v \in ValuesIn(M, adjacency) : KeyOf(v) = key

\* C36: getAdjacencyMap returns, and its result is closed under transitions:
\* the initial state value is a key, every key has one entry for each event of
\* the machine, the entry is the value transition(key, event) leads to, and
\* every value an entry leads to is a key
C36_AdjacencyClosed ==
    util.fn = "getAdjacencyMap" =>
        LET M == util.args.machine
            adjacency == util.out
            events == eventsOfNode(M.config)
        IN /\ KeyOf(initialState(M).value) \in KeysOf(adjacency)
           /\ Cardinality(KeysOf(adjacency)) = Len(adjacency)
           /\ KeysOf(adjacency) = {KeyOf(v) : v \in ValuesIn(M, adjacency)}
           /\ \A i \in 1..Len(adjacency) :
                 /\ [j \in 1..Len(adjacency[i].v) |-> adjacency[i].v[j].k] = events
                 /\ \A j \in 1..Len(events) :
                       adjacency[i].v[j].v =
                           transition(M, FromValue(ValueOfKey(M, adjacency, adjacency[i].k)),
                                      EvStr(events[j]), NoContext).value

\* the map of the nested light machine: five values, that of red.stop leading
\* back to the initial value green
C36_Witness ==
    /\ util.fn = "getAdjacencyMap"
    /\ util.args.machine = MachineOf("nested")
    /\ Len(util.out) = 5
    /\ At(At(util.out, KeyOf(Obj1("red", StrVal(W("stop"))))), W("TIMER"))
          = StrVal(W("green"))

RECURSIVE Distance(_, _, _, _)
\* the least number of events that lead from one of the keys in frontier to the
\* key target, -1 when none does; seen are the keys nearer than the frontier
Distance(adjacency, frontier, seen, target) ==
    IF target \in frontier THEN 0
    ELSE LET next == {KeyOf(e.v) : e \in UNION {Range(At(adjacency, k)) : k \in frontier}}
                         \ (seen \cup frontier)
         IN IF next = {} THEN -1
            ELSE LET d == Distance(adjacency, next, seen \cup frontier, target)
                 IN IF d = -1 THEN -1 ELSE d + 1

\* path leads from the key from to the key to: each segment holds the state
\* the segment before led to, and its event leads on
LeadsTo(adjacency, from, path, to, keyOfState(_)) ==
    /\ Len(path) = 0 => from = to
    /\ Len(path) > 0 => keyOfState(path[1].state) = from
    /\ \A j \in 1..Len(path) :
          /\ Has(adjacency, keyOfState(path[j].state))
          /\ Has(At(adjacency, keyOfState(path[j].state)), path[j].event)
          /\ KeyOf(At(At(adjacency, keyOfState(path[j].state)), path[j].event))
                = IF j < Len(path) THEN keyOfState(path[j + 1].state) ELSE to

\* C33: getShortestPaths maps every state value that can be reached to a path
\* from the initial state that leads to it and takes the least number of events
\* that lead to it; the initial state is mapped to the empty path
C33_ShortestPaths ==
    util.fn = "getShortestPaths" =>
        LET M == util.args.machine
            adjacency == util.out.adjacency
            pathMap == util.out.pathMap
            initialStateId == KeyOf(initialState(M).value)
        IN /\ KeysOf(pathMap) = KeysOf(adjacency)
           /\ At(pathMap, initialStateId) = <<>>
           /\ \A i \in 1..Len(pathMap) :
                 /\ LeadsTo(adjacency, initialStateId, pathMap[i].v, pathMap[i].k, KeyOf)
                 /\ Len(pathMap[i].v)
                       = Distance(adjacency, {initialStateId}, {}, pathMap[i].k)

\* what does hold of getShortestPaths: every path leads from the initial state
\* to the value it is kept for
C33_PathsLead ==
    util.fn = "getShortestPaths" =>
        /\ KeysOf(util.out.pathMap) = KeysOf(util.out.adjacency)
        /\ \A i \in 1..Len(util.out.pathMap) :
              LeadsTo(util.out.adjacency, KeyOf(initialState(util.args.machine).value),
                      util.out.pathMap[i].v, util.out.pathMap[i].k, KeyOf)

\* C34: getShortestValuePaths returns for every machine, and maps the initial
\* state to the empty path and every other state that can be reached to a path
\* of at least one segment that starts at the initial state
C34_ShortestValuePaths ==
    util.fn = "getShortestValuePaths" =>
        LET M == util.args.machine
            pathMap == util.out.pathMap
            initialStateId == serializeState(initialState(M))
        IN /\ ~util.out.threw
           /\ KeysOf(pathMap) = KeysOf(util.out.adjacency)
           /\ At(pathMap, initialStateId) = <<>>
           /\ \A i \in 1..Len(pathMap) :
                 pathMap[i].k # initialStateId =>
                     /\ Len(pathMap[i].v) > 0
                     /\ pathMap[i].v[1].state = initialState(M).value

RECURSIVE SimplePaths(_, _, _, _)
\* every path of distinct keys from the key from to the key to that visits
\* none of the keys in visited, as the keys and events it takes
SimplePaths(adjacency, from, to, visited) ==
    IF from = to THEN {<<>>}
    ELSE UNION {{<<[key |-> from, event |-> e.k]>> \o rest :
                    rest \in SimplePaths(adjacency, KeyOf(e.v), to, visited \cup {from})} :
                e \in {d \in Range(At(adjacency, from)) :
                          KeyOf(d.v) \notin visited \cup {from}}}

\* a path of segments as the keys and events it takes
Taken(path) ==
    [j \in 1..Len(path) |-> [key |-> JSONstringify(path[j].state), event |-> path[j].event]]

\* C35: every path getSimplePaths returns for a state value leads from the
\* initial state to that value along entries of the adjacency map and visits no
\* value twice; the initial state has the empty path only; and every such path
\* to a value that can be reached is returned, once
C35_SimplePaths ==
    util.fn = "getSimplePaths" =>
        LET M == util.args.machine
            adjacency == util.out.adjacency
            paths == util.out.paths
            initialStateId == KeyOf(initialState(M).value)
        IN /\ KeysOf(paths) = KeysOf(adjacency)
           /\ At(paths, initialStateId) = << <<>> >>
           /\ \A i \in 1..Len(paths) :
                 LET found == paths[i].v
                 IN /\ \A n \in 1..Len(found) :
                          /\ LeadsTo(adjacency, initialStateId, found[n], paths[i].k,
                                     JSONstringify)
                          /\ Cardinality({t.key : t \in Range(Taken(found[n]))}
                                             \cup {paths[i].k})
                                = Len(found[n]) + 1
                    /\ {Taken(found[n]) : n \in 1..Len(found)}
                          = SimplePaths(adjacency, initialStateId, paths[i].k, {})
                    /\ Cardinality({Taken(found[n]) : n \in 1..Len(found)}) = Len(found)

\* a value of a machine of six nodes that three paths lead to, one of them by
\* SKIP and two by NEXT from different nodes
C35_Witness ==
    /\ util.fn = "getSimplePaths"
    /\ Len(util.out.adjacency) = MaxNodes
    /\ \E i \in 1..Len(util.out.paths) :
          /\ Len(util.out.paths[i].v) >= 3
          /\ \E n \in 1..Len(util.out.paths[i].v) :
                \E j \in 1..Len(util.out.paths[i].v[n]) :
                    util.out.paths[i].v[n][j].event = W("SKIP")

-----------------------------------------------------------------------------
\* useService: the subscription a component has on a service

\* the number of times a service hands a state to its listeners
MaxNotifications == 4

\* state.changed is true, false or absent (the initial state has none)
Changes == {"true", "false", "undefined"}

ServiceStates == [value : {W("green"), W("yellow")}, changed : Changes]

\* `let currentValue` before anything is assigned to it
UndefinedState == [value |-> <<>>, changed |-> "undefined"]

\* the listener of subscribe that hands every state on
subscriptionListenerOfAll(subscription, state) ==
    [subscription EXCEPT !.currentValue = state, !.callbacks = @ + 1]

\* the listener subscribe(callback) gives to service.subscribe; callbacks
\* counts the calls of callback
subscriptionListener(subscription, state) ==
    IF state.changed # "false"
    THEN [subscription EXCEPT !.currentValue = state, !.callbacks = @ + 1]
    ELSE subscription

\* the body of useMemo: currentValue is what the service hands to a listener
\* that subscribes and unsubscribes at once; a service that hands nothing to a
\* new listener leaves it undefined
useServiceMemo(service) ==
    [currentValue |-> IF service.immediate THEN service.state ELSE UndefinedState,
     callbacks |-> 0,
     listening |-> FALSE]

\* subscription.subscribe(callback): the listener is given to the service,
\* which hands it its state at once if it is a service that does so
subscribe(subscription, service) ==
    IF service.immediate
    THEN subscriptionListener([subscription EXCEPT !.listening = TRUE], service.state)
    ELSE [subscription EXCEPT !.listening = TRUE]

\* the states the listener of subscribe has been called with so far
Delivered(delivered, subscription, state) ==
    IF subscription.listening THEN Append(delivered, state) ELSE delivered

\* a started service: its state, and whether subscribe calls a new listener
\* with the state; no subscription yet
InitSubscription ==
    /\ machine = "light"
    /\ cur = initialState(MachineOf(machine))
    /\ last = NoCall
    /\ run = [start |-> initialStateValue(MachineOf(machine).config), nTimer |-> 0]
    /\ exited = "none"
    /\ svc = NoService
    /\ clock = NoClock
    /\ obs = NoObs
    /\ util \in {[fn |-> "service",
                  service |-> [state |-> s, immediate |-> b],
                  subscription |-> useServiceMemo([state |-> UndefinedState, immediate |-> FALSE]),
                  read |-> UndefinedState,
                  delivered |-> <<>>,
                  n |-> 0] : s \in ServiceStates, b \in BOOLEAN}

\* useService(service), first render
UseService ==
    /\ util.fn = "service"
    /\ util' = [util EXCEPT !.fn = "useService",
                            !.subscription = useServiceMemo(util.service),
                            !.read = useServiceMemo(util.service).currentValue]
    /\ UNCHANGED <<machine, cur, last, run, exited, svc, clock, obs>>

\* subscription.subscribe(callback), as useSubscription calls it
Subscribe ==
    /\ util.fn # "service"
    /\ ~util.subscription.listening
    /\ util.n < MaxNotifications
    /\ util' = [util EXCEPT !.fn = "subscribe",
                            !.subscription = subscribe(util.subscription, util.service),
                            !.delivered = IF util.service.immediate
                                          THEN Append(@, util.service.state) ELSE @,
                            !.n = IF util.service.immediate THEN @ + 1 ELSE @]
    /\ UNCHANGED <<machine, cur, last, run, exited, svc, clock, obs>>

\* the service moves to a state and calls its listeners with it
ServiceNotify(state) ==
    /\ util.n < MaxNotifications
    /\ util' = [util EXCEPT !.fn = IF util.fn = "service" THEN "service" ELSE "notify",
                            !.service.state = state,
                            !.subscription = IF @.listening
                                             THEN subscriptionListener(@, state) ELSE @,
                            !.delivered = Delivered(@, util.subscription, state),
                            !.n = @ + 1]
    /\ UNCHANGED <<machine, cur, last, run, exited, svc, clock, obs>>

\* the unsubscribe that subscribe has returned
Unsubscribe ==
    /\ util.subscription.listening
    /\ util' = [util EXCEPT !.fn = "unsubscribe", !.subscription.listening = FALSE]
    /\ UNCHANGED <<machine, cur, last, run, exited, svc, clock, obs>>

NextSubscription ==
    \/ UseService
    \/ Subscribe
    \/ \E state \in ServiceStates : ServiceNotify(state)
    \/ Unsubscribe

SpecSubscription == InitSubscription /\ [][NextSubscription]_vars

\* the last state of a sequence whose changed is not false, or else otherwise
RECURSIVE LastChanged(_, _)
LastChanged(states, otherwise) ==
    IF states = <<>> THEN otherwise
    ELSE IF states[Len(states)].changed # "false" THEN states[Len(states)]
    ELSE LastChanged(SubSeq(states, 1, Len(states) - 1), otherwise)

NotUnchanged(states) == {i \in 1..Len(states) : states[i].changed # "false"}

\* C39: after any sequence of states the service has handed to the listener
\* of the subscription of useService, getCurrentValue() is the most recent of
\* them whose changed is not false, or the state read when the subscription
\* was built if there is none, and callback has been called once for each of
\* them whose changed is not false
C39_SubscriptionSkipsUnchanged ==
    util.fn # "service" =>
        /\ util.subscription.currentValue = LastChanged(util.delivered, util.read)
        /\ util.subscription.callbacks = Cardinality(NotUnchanged(util.delivered))

\* a changed state, then unchanged ones: the value stays at the changed state
C39_Witness ==
    /\ util.fn = "notify"
    /\ Len(util.delivered) >= 3
    /\ util.delivered[Len(util.delivered)].changed = "false"
    /\ util.delivered[Len(util.delivered) - 1].changed = "true"
    /\ util.subscription.callbacks >= 1
    /\ util.subscription.callbacks < Len(util.delivered)
    /\ util.subscription.currentValue = util.delivered[Len(util.delivered) - 1]
    /\ util.subscription.currentValue # util.service.state
=============================================================================
